---- MODULE Spec2Model ----
(***************************************************************************)
(* A model of the Wayland surface/event coordinator of iced:               *)
(*   - SctkState (winit/src/platform_specific/wayland/event_loop/state.rs) *)
(*     with its action executor handle_action, scale_factor_changed and    *)
(*     the surface constructors get_popup / get_layer_surface /            *)
(*     get_lock_surface;                                                    *)
(*   - the dispatcher loop of SctkEventLoop::new (event_loop/mod.rs);      *)
(*   - window creation and the xdg-toplevel configure handler of the sctk  *)
(*     crate (sctk/src/event_loop/state.rs, handlers/shell/xdg_window.rs); *)
(*   - the pointer handler (handlers/seat/pointer.rs);                     *)
(*   - the id generators of accessibility/src/id.rs.                       *)
(*                                                                         *)
(* Option<T> is modelled as a sequence: <<>> is None and <<x>> is Some(x). *)
(* A Vec is a sequence, a HashMap a function, a HashSet a set.             *)
(***************************************************************************)
EXTENDS Integers, Sequences, FiniteSets, TLC

VARIABLES
    globals,          \* which optional Wayland globals were bound at startup
    windows,          \* SctkState::windows         : Vec<SctkWindow>
    layer_surfaces,   \* SctkState::layer_surfaces  : Vec<SctkLayerSurface>
    popups,           \* SctkState::popups          : Vec<SctkPopup>
    lock_surfaces,    \* SctkState::lock_surfaces   : Vec<SctkLockSurface>
    session_lock,     \* SctkState::session_lock    : Option<SessionLock>
    id_map,           \* SctkState::id_map          : HashMap<ObjectId, Id>
    to_commit,        \* SctkState::to_commit       : HashMap<Id, WlSurface>
    requested_frame,  \* SctkState::requested_frame : HashSet<ObjectId>
    sctk_events,      \* SctkState::sctk_events     : Vec<SctkEvent>
    ready,            \* SctkState::ready
    seats,            \* SctkState::seats           : Vec<SctkSeat>
    next_obj,         \* next fresh Wayland object id handed out by the compositor
    panicked,         \* the dispatcher thread has panicked (it handles nothing more)
    act,              \* the handler that ran last: [name, id]
    emitted,          \* what the last handler sent on events_sender, in order
    requests,         \* the Wayland requests the last handler issued, in order
    NEXT_ID,          \* accessibility::id::NEXT_ID
    NEXT_WINDOW_ID,   \* accessibility::id::NEXT_WINDOW_ID
    minted,           \* the ids minted so far: [window: sequence, widget: set,
                      \* unique: set]
    startup,          \* SctkEventLoop::new: the globals the compositor offers,
                      \* how far the spawned thread is, what new() returned
    ui,               \* the UI thread inside a SctkWinitWindow method
    channel           \* the actions sent on action_tx and not yet received

regVars  == <<globals, windows, layer_surfaces, popups, lock_surfaces,
              session_lock, id_map, to_commit, requested_frame, sctk_events,
              ready, next_obj, panicked>>
logVars  == <<act, emitted, requests>>
idVars   == <<NEXT_ID, NEXT_WINDOW_ID, minted>>
threadVars == <<startup, ui, channel>>
vars     == <<globals, windows, layer_surfaces, popups, lock_surfaces,
              session_lock, id_map, to_commit, requested_frame, sctk_events,
              ready, seats, next_obj, panicked, act, emitted, requests,
              NEXT_ID, NEXT_WINDOW_ID, minted, startup, ui, channel>>

(***************************************************************************)
(* Bounds of the model.                                                    *)
(***************************************************************************)
\* SurfaceIds the UI mints: 1..MaxIds
MaxIds == 3
\* Wayland surfaces the compositor hands out before creation stops
MaxObj == 3
\* largest width/height used as an input
MaxDim == 2
\* events that may wait in sctk_events before the wake-up ends
MaxPending == 2
\* SurfaceIds (and surfaces) in the commit scheduler's specification
MaxCommitIds == 2

Ids  == 1..MaxIds
Dims == 0..MaxDim

None == <<>>
Some(x) == <<x>>
IsSome(o) == Len(o) = 1
IsNone(o) == Len(o) = 0
Unwrap(o) == o[1]
UnwrapOr(o, d) == IF IsSome(o) THEN o[1] ELSE d

\* the least element of a non-empty set of numbers, 0 for the empty set
First(S) == IF S = {} THEN 0 ELSE CHOOSE i \in S : \A j \in S : i <= j

\* iter().position(|s| s.id == id): the index of the first record with that
\* SurfaceId, 0 if there is none
PosById(seq, id) == First({i \in 1..Len(seq) : seq[i].id = id})

\* iter().position(|s| s.wl_surface() == wl): the same by Wayland surface
PosByWl(seq, wl) == First({i \in 1..Len(seq) : seq[i].wl = wl})

\* index of the first occurrence of e in seq, 0 if absent
IndexOf(seq, e) == First({i \in 1..Len(seq) : seq[i] = e})

\* Vec::remove(i)
RemoveAt(seq, i) == SubSeq(seq, 1, i - 1) \o SubSeq(seq, i + 1, Len(seq))

\* HashMap::insert
MapInsert(m, k, v) == [x \in DOMAIN m \cup {k} |-> IF x = k THEN v ELSE m[x]]

EmptyMap == [x \in {} |-> 0]

Range(seq) == {seq[i] : i \in 1..Len(seq)}

Label(n, i) == [name |-> n, id |-> i]


(***************************************************************************)
(* Startup: SctkEventLoop::new binds the globals and builds an empty       *)
(* SctkState.  The fractional-scale manager decides whether the viewporter *)
(* is tried at all, so a viewporter without it cannot occur.               *)
(***************************************************************************)
GlobalChoices ==
    { g \in [viewporter : BOOLEAN, fractional : BOOLEAN,
             layer_shell : BOOLEAN, lock_ok : BOOLEAN] :
        g.viewporter => g.fractional }

AllGlobals == [viewporter |-> TRUE, fractional |-> TRUE,
               layer_shell |-> TRUE, lock_ok |-> TRUE]

\* the three globals SctkEventLoop::new cannot do without (lines 186-191)
RequiredGlobals == {"wl_compositor", "wl_shm", "xdg_wm_base"}

\* new() has returned the action sender and the thread runs its loop
Started == [offered |-> RequiredGlobals, thread |-> "running", result |-> <<"Ok">>]

\* the UI thread is in none of the window's methods
UiIdle == [op |-> "none", wl |-> 0, guard |-> FALSE, value |-> <<>>]

\* the SctkState literal of SctkEventLoop::new, lines 180-222
InitSctkState(g) ==
    /\ globals = g
    /\ windows = <<>>
    /\ layer_surfaces = <<>>
    /\ popups = <<>>
    /\ lock_surfaces = <<>>
    /\ session_lock = FALSE
    /\ id_map = EmptyMap
    /\ to_commit = EmptyMap
    /\ requested_frame = {}
    /\ sctk_events = <<>>
    /\ ready = TRUE
    /\ seats = <<>>
    /\ next_obj = 1
    /\ panicked = FALSE
    /\ act = Label("init", 0)
    /\ emitted = <<>>
    /\ requests = <<>>

InitState(g) ==
    /\ InitSctkState(g)
    /\ startup = Started
    /\ ui = UiIdle
    /\ channel = <<>>

(***************************************************************************)
(* u64 arithmetic.  A u64 is kept as four 16-bit limbs, the most           *)
(* significant first, so that values around 2^32 and the wrap at 2^64 are  *)
(* exact.                                                                  *)
(***************************************************************************)
Limb == 65536

U64(n) == <<0, 0, n \div Limb, n % Limb>>

\* u64 wrapping addition (AtomicU64::fetch_add wraps around on overflow)
Add64(a, b) ==
    LET s4 == a[4] + b[4]
        s3 == a[3] + b[3] + (s4 \div Limb)
        s2 == a[2] + b[2] + (s3 \div Limb)
        s1 == a[1] + b[1] + (s2 \div Limb)
    IN  <<s1 % Limb, s2 % Limb, s3 % Limb, s4 % Limb>>

\* a < b on u64
Lt64(a, b) ==
    \E i \in 1..4 : a[i] < b[i] /\ \A j \in 1..(i - 1) : a[j] = b[j]

\* u32::MAX as u64
U32_MAX == <<0, 0, Limb - 1, Limb - 1>>

\* `static NEXT_ID: AtomicU64 = AtomicU64::new(1)` and NEXT_WINDOW_ID likewise;
\* minted records what the generators have handed out: the window ids in
\* order, the widget ids as a set, and those of them that Id::unique made
InitIds ==
    /\ NEXT_ID = U64(1)
    /\ NEXT_WINDOW_ID = U64(1)
    /\ minted = [window |-> <<>>, widget |-> {}, unique |-> {}]

\* viewporter_state.as_ref().map(|s| s.get_viewport(..)): a new viewport has no
\* destination (the protocol's unset value is -1 x -1)
UnsetDestination == <<-1, -1>>
NewViewport == IF globals.viewporter THEN Some(UnsetDestination) ELSE None
NewViewportWith(w, h) == IF globals.viewporter THEN Some(<<w, h>>) ELSE None
\* fractional_scaling_manager.as_ref().map(|fsm| fsm.fractional_scaling(..))
NewFractionalScale == globals.fractional

\* a conversion that keeps a zero dimension
NonZeroOr1_KeepZero(x) == x

\* NonZeroU32::new(x).unwrap_or(NonZeroU32::new(1).unwrap())
NonZeroOr1(x) == IF x = 0 THEN 1 ELSE x

\* A handler runs only while the dispatcher thread is alive; creation stops
\* when the model's supply of Wayland objects is used up.
Alive == ~panicked
CanCreate == next_obj <= MaxObj
Objs == 1..MaxObj

(***************************************************************************)
(* SctkState::get_window (sctk crate)                                      *)
(***************************************************************************)
GetWindow(id, w, h, resizable) ==
    /\ Alive /\ CanCreate
    /\ windows' = Append(windows,
          [id |-> id, wl |-> next_obj, scale_factor |-> None,
           requested_size |-> Some(<<NonZeroOr1(w), NonZeroOr1(h)>>),
           current_size |-> <<NonZeroOr1(w), NonZeroOr1(h)>>,
           last_configure |-> None, resizable |-> resizable,
           wp_viewport |-> NewViewport,
           wp_fractional_scale |-> NewFractionalScale])
    /\ next_obj' = next_obj + 1
    /\ act' = Label("GetWindow", id)
    /\ emitted' = <<>>
    /\ requests' = <<<<"set_window_geometry", next_obj, <<w, h>>>>,
                     <<"commit", next_obj>>>>
    /\ UNCHANGED <<globals, layer_surfaces, popups, lock_surfaces, session_lock,
                   id_map, to_commit, requested_frame, sctk_events, ready, seats,
                   panicked, idVars, threadVars>>

(***************************************************************************)
(* SctkState::get_layer_surface and layer_surface::Action::LayerSurface    *)
(***************************************************************************)
Anchors == {"TOP", "BOTTOM", "LEFT", "RIGHT"}

\* lines 676-686: a dimension stretched by both anchors is None, else it is
\* Some(max(given or 1, 1))
LayerRequestedDim(anchor, a, b, dim) ==
    IF {a, b} \subseteq anchor THEN None
    ELSE Some(IF UnwrapOr(dim, 1) < 1 THEN 1 ELSE UnwrapOr(dim, 1))

LayerRequestedSize(anchor, size) ==
    <<LayerRequestedDim(anchor, "LEFT", "RIGHT", size[1]),
      LayerRequestedDim(anchor, "TOP", "BOTTOM", size[2])>>

ActLayerSurface(id, anchor, size) ==
    /\ Alive /\ CanCreate
    /\ act' = Label("LayerSurface", id)
    /\ IF ~globals.layer_shell
       THEN \* Err(LayerShellNotSupported): dropped by the `if let Ok`
            /\ emitted' = <<>>
            /\ requests' = <<>>
            /\ UNCHANGED <<layer_surfaces, id_map, next_obj>>
       ELSE LET rs == LayerRequestedSize(anchor, size) IN
            /\ id_map' = MapInsert(id_map, next_obj, id)
            /\ layer_surfaces' = Append(layer_surfaces,
                  [id |-> id, wl |-> next_obj, requested_size |-> rs,
                   current_size |-> None, anchor |-> anchor,
                   last_configure |-> None,
                   wp_viewport |-> NewViewport,
                   wp_fractional_scale |-> NewFractionalScale,
                   common |-> [fractional_scale |-> None,
                               size |-> <<UnwrapOr(rs[1], 1), UnwrapOr(rs[2], 1)>>]])
            /\ next_obj' = next_obj + 1
            /\ emitted' = <<<<"LayerCreated", next_obj, id>>>>
            /\ requests' = <<<<"commit", next_obj>>>>
    /\ UNCHANGED <<globals, windows, popups, lock_surfaces, session_lock,
                   to_commit, requested_frame, sctk_events, ready, seats, panicked,
                   idVars, threadVars>>


(***************************************************************************)
(* SctkState::get_popup and popup::Action::Popup                           *)
(***************************************************************************)
\* lines 471-497: the parent is searched among the layer surfaces, then the
\* windows, then the popups; the result is <<SctkSurface, toplevel>> or None
ResolveParent(parent) ==
    LET l == PosById(layer_surfaces, parent)
        w == PosById(windows, parent)
        p == PosById(popups, parent)
    IN  IF l # 0
        THEN Some([parent |-> [kind |-> "LayerSurface", wl |-> layer_surfaces[l].wl],
                   toplevel |-> layer_surfaces[l].wl])
        ELSE IF w # 0
        THEN Some([parent |-> [kind |-> "Window", wl |-> windows[w].wl],
                   toplevel |-> windows[w].wl])
        ELSE IF p # 0
        THEN Some([parent |-> [kind |-> "Popup", wl |-> popups[p].wl],
                   toplevel |-> popups[p].toplevel])
        ELSE None

\* The outcome of get_popup: Ok or the error, and how far it got.
\*   positioner_ok / popup_ok: whether XdgPositioner::new / Popup::from_surface
\*   succeed (decided by the compositor's globals).
GetPopupResult(parent, size, positioner_ok, popup_ok) ==
    IF IsNone(ResolveParent(parent)) THEN "ParentMissing"
    ELSE IF IsNone(size) THEN "SizeMissing"
    ELSE IF ~positioner_ok THEN "PositionerCreationFailed"
    ELSE IF ~popup_ok THEN "PopupCreationFailed"
    ELSE "Ok"

\* seats.first(): last_ptr_press serial, else last_kbd_press serial, else 0
GrabSerial(s) ==
    IF IsSome(s.last_ptr_press) THEN Unwrap(s.last_ptr_press)[3]
    ELSE IF IsSome(s.last_kbd_press) THEN Unwrap(s.last_kbd_press) ELSE 0

ActPopup(id, parent, size, grab, positioner_ok, popup_ok) ==
    LET res == GetPopupResult(parent, size, positioner_ok, popup_ok)
        par == Unwrap(ResolveParent(parent))
    IN
    /\ Alive /\ CanCreate
    /\ act' = Label("Popup", id)
    /\ IF res \in {"ParentMissing", "SizeMissing", "PositionerCreationFailed"}
       THEN /\ emitted' = <<>>
            /\ requests' = <<>>
            /\ UNCHANGED <<popups, id_map, next_obj>>
       ELSE IF res = "PopupCreationFailed"
       THEN \* the wl_surface was created and recorded (531-533) before the `?`
            /\ id_map' = MapInsert(id_map, next_obj, id)
            /\ next_obj' = next_obj + 1
            /\ emitted' = <<>>
            /\ requests' = <<>>
            /\ UNCHANGED popups
       ELSE /\ id_map' = MapInsert(id_map, next_obj, id)
            /\ next_obj' = next_obj + 1
            /\ popups' = Append(popups,
                  [id |-> id, wl |-> next_obj, parent |-> par.parent,
                   toplevel |-> par.toplevel, last_configure |-> None,
                   wp_viewport |-> NewViewportWith(Unwrap(size)[1], Unwrap(size)[2]),
                   wp_fractional_scale |-> NewFractionalScale,
                   common |-> [fractional_scale |-> None, size |-> Unwrap(size)]])
            /\ requests' =
                  (IF grab /\ Len(seats) > 0
                   THEN <<<<"grab", next_obj, GrabSerial(seats[1])>>>> ELSE <<>>)
                  \o <<<<"commit", next_obj>>>>
            /\ emitted' = <<<<"PopupCreated", next_obj, id>>>>
    /\ UNCHANGED <<globals, windows, layer_surfaces, lock_surfaces, session_lock,
                   to_commit, requested_frame, sctk_events, ready, seats, panicked,
                   idVars, threadVars>>

(***************************************************************************)
(* popup::Action::Destroy                                                  *)
(***************************************************************************)
\* lines 986-1001: while the last collected popup's parent is a popup, remove
\* that parent from the collection and collect it; `.unwrap()` panics when the
\* parent is no longer registered
RECURSIVE CollectToDestroy(_, _)
CollectToDestroy(ps, to_destroy) ==
    LET last == to_destroy[Len(to_destroy)] IN
    IF last.parent.kind # "Popup"
    THEN [popups |-> ps, to_destroy |-> to_destroy, panic |-> FALSE]
    ELSE LET i == PosByWl(ps, last.parent.wl) IN
         IF i = 0
         THEN [popups |-> ps, to_destroy |-> to_destroy, panic |-> TRUE]
         ELSE CollectToDestroy(RemoveAt(ps, i), Append(to_destroy, ps[i]))

Reverse(seq) == [i \in 1..Len(seq) |-> seq[Len(seq) + 1 - i]]

\* lines 1002-1013: the loop over to_destroy.into_iter().rev() sends nothing
\* (its body is commented out); each popup is dropped, which destroys it
PopupDoneEvents(to_destroy) == <<>>

DestroyRequests(order) == [i \in 1..Len(order) |-> <<"popup.destroy", order[i].wl>>]

ActPopupDestroy(id) ==
    LET p == PosById(popups, id) IN
    /\ Alive
    /\ act' = Label("PopupDestroy", id)
    /\ IF p = 0
       THEN \* None => panic!("TODO return error...")
            /\ panicked' = TRUE
            /\ emitted' = <<>>
            /\ requests' = <<>>
            /\ UNCHANGED popups
       ELSE LET c == CollectToDestroy(RemoveAt(popups, p), <<popups[p]>>) IN
            /\ popups' = c.popups
            /\ panicked' = c.panic
            /\ emitted' = IF c.panic THEN <<>> ELSE PopupDoneEvents(c.to_destroy)
               \* unwinding drops the vector front to back
            /\ requests' = IF c.panic THEN DestroyRequests(c.to_destroy)
                           ELSE DestroyRequests(Reverse(c.to_destroy))
    /\ UNCHANGED <<globals, windows, layer_surfaces, lock_surfaces, session_lock,
                   id_map, to_commit, requested_frame, sctk_events, ready, seats,
                   next_obj, idVars, threadVars>>

(***************************************************************************)
(* Windows: SctkWindow::update_size / set_size, the xdg-toplevel configure *)
(* handler and the window actions of handle_action                         *)
(***************************************************************************)
\* SctkWindow::update_size, lines 138-157; width/height are Option<NonZeroU32>
UpdateSize(win, width, height) ==
    LET w == UnwrapOr(width, win.current_size[1])
        h == UnwrapOr(height, win.current_size[2])
    IN  IF win.current_size = <<w, h>> THEN win
        ELSE [win EXCEPT !.current_size = <<w, h>>,
                         !.wp_viewport = IF IsSome(@) THEN Some(<<w, h>>) ELSE @]

UpdateSizeRequests(win, width, height) ==
    LET w == UnwrapOr(width, win.current_size[1])
        h == UnwrapOr(height, win.current_size[2])
    IN  IF win.current_size = <<w, h>> THEN <<>>
        ELSE <<<<"set_window_geometry", win.wl, <<w, h>>>>>>
             \o (IF IsSome(win.wp_viewport)
                 THEN <<<<"set_destination", win.wl, <<w, h>>>>>> ELSE <<>>)

\* SctkWindow::set_size, lines 133-136
SetSize(win, w, h) ==
    UpdateSize([win EXCEPT !.requested_size = Some(<<w, h>>)], Some(w), Some(h))

\* WindowHandler::configure (sctk crate); new_size is (Option, Option), and
\* cstate stands for the configure's window state and capabilities
WindowConfigure(i, new_size, cstate) ==
    LET win == windows[i]
        upd == UpdateSize(win, new_size[1], new_size[2])
        first == IsNone(win.last_configure)
        changed == IF first THEN TRUE ELSE Unwrap(win.last_configure).state # cstate
    IN
    /\ Alive
    /\ i \in 1..Len(windows)
    /\ Len(sctk_events) < MaxPending
    /\ windows' = [windows EXCEPT ![i] =
          [upd EXCEPT !.last_configure =
              Some([new_size |-> new_size, state |-> cstate])]]
    /\ sctk_events' = sctk_events
          \o (IF changed THEN <<<<"WindowStateChanged", win.wl, cstate>>>> ELSE <<>>)
          \o <<<<"WindowConfigure", win.wl, upd.current_size, first>>>>
    /\ act' = Label("WindowConfigure", win.id)
    /\ emitted' = <<>>
    /\ requests' = UpdateSizeRequests(win, new_size[1], new_size[2])
    /\ UNCHANGED <<globals, layer_surfaces, popups, lock_surfaces, session_lock,
                   id_map, to_commit, requested_frame, ready, seats, next_obj,
                   panicked, idVars, threadVars>>

\* window::Action::Window: panic!("TODO remove this action")
ActWindow(id) ==
    /\ Alive
    /\ panicked' = TRUE
    /\ act' = Label("Window", id)
    /\ emitted' = <<>>
    /\ requests' = <<>>
    /\ UNCHANGED <<globals, windows, layer_surfaces, popups, lock_surfaces,
                   session_lock, id_map, to_commit, requested_frame, sctk_events,
                   ready, seats, next_obj, idVars, threadVars>>

\* window::Action::Size, lines 884-895
ActWindowSize(id, width, height) ==
    LET i == PosById(windows, id)
        w == NonZeroOr1(width)
        h == NonZeroOr1(height)
    IN
    /\ Alive
    /\ act' = Label("WindowSize", id)
    /\ IF i = 0
       THEN /\ emitted' = <<>> /\ requests' = <<>> /\ UNCHANGED windows
       ELSE /\ windows' = [windows EXCEPT ![i] = SetSize(@, w, h)]
            /\ requests' = UpdateSizeRequests(windows[i], Some(w), Some(h))
            /\ emitted' = IF IsSome(windows[i].last_configure)
                          THEN <<<<"WindowSize", windows[i].wl, <<w, h>>, FALSE>>>>
                          ELSE <<>>
    /\ UNCHANGED <<globals, layer_surfaces, popups, lock_surfaces, session_lock,
                   id_map, to_commit, requested_frame, sctk_events, ready, seats,
                   next_obj, panicked, idVars, threadVars>>

\* `_ = self.to_commit.insert(id, wl_surface)`
ToCommitInsert(m, id, wl) == MapInsert(m, id, wl)

\* window::Action::{MinSize, MaxSize, Title, AppId}, lines 896-913 and 957-962:
\* one request on the toplevel, then the window is put in to_commit
WindowRequestKinds == {"set_min_size", "set_max_size", "set_title", "set_app_id"}

ActWindowRequest(kind, id, value) ==
    LET i == PosById(windows, id) IN
    /\ Alive
    /\ act' = Label(kind, id)
    /\ emitted' = <<>>
    /\ IF i = 0
       THEN /\ requests' = <<>> /\ UNCHANGED to_commit
       ELSE /\ requests' = <<<<kind, windows[i].wl, value>>>>
            /\ to_commit' = ToCommitInsert(to_commit, id, windows[i].wl)
    /\ UNCHANGED <<globals, windows, layer_surfaces, popups, lock_surfaces,
                   session_lock, id_map, requested_frame, sctk_events, ready, seats,
                   next_obj, panicked, idVars, threadVars>>

\* window::Action::Destroy, lines 941-956: the Close event is commented out
ActWindowDestroy(id) ==
    LET i == PosById(windows, id) IN
    /\ Alive
    /\ act' = Label("WindowDestroy", id)
    /\ emitted' = <<>>
    /\ IF i = 0
       THEN /\ requests' = <<>> /\ UNCHANGED windows
       ELSE /\ windows' = RemoveAt(windows, i)
            /\ requests' = <<<<"toplevel.destroy", windows[i].wl>>>>
    /\ UNCHANGED <<globals, layer_surfaces, popups, lock_surfaces, session_lock,
                   id_map, to_commit, requested_frame, sctk_events, ready, seats,
                   next_obj, panicked, idVars, threadVars>>

(***************************************************************************)
(* Layer surfaces: the remaining layer_surface actions                     *)
(***************************************************************************)
\* layer_surface::Action::Size, lines 806-823, with SctkLayerSurface::set_size
LayerSizeConfigure(prev, width, height) ==
    <<UnwrapOr(width, prev[1]), UnwrapOr(width, prev[2])>>

ActLayerSize(id, width, height) ==
    LET i == PosById(layer_surfaces, id) IN
    /\ Alive
    /\ act' = Label("LayerSize", id)
    /\ IF i = 0
       THEN /\ emitted' = <<>> /\ requests' = <<>> /\ UNCHANGED layer_surfaces
       ELSE LET l == layer_surfaces[i] IN
            /\ layer_surfaces' =
                  [layer_surfaces EXCEPT ![i].requested_size = <<width, height>>]
            /\ requests' = <<<<"layer.set_size", l.wl,
                               <<UnwrapOr(width, 0), UnwrapOr(height, 0)>>>>>>
            /\ emitted' = IF IsSome(l.last_configure)
                          THEN <<<<"LayerConfigure", l.wl,
                                   LayerSizeConfigure(Unwrap(l.last_configure),
                                                      width, height), FALSE>>>>
                          ELSE <<>>
    /\ UNCHANGED <<globals, windows, popups, lock_surfaces, session_lock, id_map,
                   to_commit, requested_frame, sctk_events, ready, seats, next_obj,
                   panicked, idVars, threadVars>>

\* the layer-shell configure handler: it records the configure, sets the current
\* size with update_viewport (lines 187-193) and queues a Configure event that
\* is tagged first when the surface had no configure before
LayerConfigure(i, new_size) ==
    LET l == layer_surfaces[i]
        first == IsNone(l.last_configure)
    IN
    /\ Alive
    /\ i \in 1..Len(layer_surfaces)
    /\ Len(sctk_events) < MaxPending
    /\ layer_surfaces' = [layer_surfaces EXCEPT
          ![i].last_configure = Some(new_size),
          ![i].current_size = Some(new_size),
          ![i].wp_viewport = IF IsSome(@) THEN Some(new_size) ELSE @]
    /\ sctk_events' = Append(sctk_events, <<"LayerConfigure", l.wl, new_size, first>>)
    /\ act' = Label("LayerConfigure", l.id)
    /\ emitted' = <<>>
    /\ requests' = IF IsSome(l.wp_viewport)
                   THEN <<<<"set_destination", l.wl, new_size>>>> ELSE <<>>
    /\ UNCHANGED <<globals, windows, popups, lock_surfaces, session_lock, id_map,
                   to_commit, requested_frame, ready, seats, next_obj, panicked,
                   idVars, threadVars>>

\* layer_surface::Action::Destroy, lines 824-834
ActLayerDestroy(id) ==
    LET i == PosById(layer_surfaces, id) IN
    /\ Alive
    /\ act' = Label("LayerDestroy", id)
    /\ requests' = <<>>
    /\ IF i = 0
       THEN /\ emitted' = <<>> /\ UNCHANGED layer_surfaces
       ELSE /\ layer_surfaces' = RemoveAt(layer_surfaces, i)
            /\ emitted' = <<<<"LayerDone", layer_surfaces[i].wl>>>>
    /\ UNCHANGED <<globals, windows, popups, lock_surfaces, session_lock, id_map,
                   to_commit, requested_frame, sctk_events, ready, seats, next_obj,
                   panicked, idVars, threadVars>>

\* layer_surface::Action::Anchor, lines 835-842
ActLayerAnchor(id, anchor) ==
    LET i == PosById(layer_surfaces, id) IN
    /\ Alive
    /\ act' = Label("LayerAnchor", id)
    /\ emitted' = <<>>
    /\ IF i = 0
       THEN /\ requests' = <<>> /\ UNCHANGED <<layer_surfaces, to_commit>>
       ELSE /\ layer_surfaces' = [layer_surfaces EXCEPT ![i].anchor = anchor]
            /\ requests' = <<<<"layer.set_anchor", layer_surfaces[i].wl, anchor>>>>
            /\ to_commit' = ToCommitInsert(to_commit, id, layer_surfaces[i].wl)
    /\ UNCHANGED <<globals, windows, popups, lock_surfaces, session_lock, id_map,
                   requested_frame, sctk_events, ready, seats, next_obj, panicked,
                   idVars, threadVars>>

(***************************************************************************)
(* The action source of SctkEventLoop::new and the tail of its loop        *)
(***************************************************************************)
\* Action::RequestRedraw, lines 125-127
ActRequestRedraw(wl) ==
    /\ Alive
    /\ requested_frame' = requested_frame \ {wl}
    /\ act' = Label("RequestRedraw", wl)
    /\ emitted' = <<>>
    /\ requests' = <<>>
    /\ UNCHANGED <<globals, windows, layer_surfaces, popups, lock_surfaces,
                   session_lock, id_map, to_commit, sctk_events, ready, seats,
                   next_obj, panicked, idVars, threadVars>>

\* Action::PrePresentNotify, lines 128-132
ActPrePresentNotify(wl) ==
    /\ Alive
    /\ requested_frame' = requested_frame \cup {wl}
    /\ act' = Label("PrePresentNotify", wl)
    /\ emitted' = <<>>
    /\ requests' = <<>>
    /\ UNCHANGED <<globals, windows, layer_surfaces, popups, lock_surfaces,
                   session_lock, id_map, to_commit, sctk_events, ready, seats,
                   next_obj, panicked, idVars, threadVars>>

\* the surfaces the loop's tail visits: layer surfaces, then popups, then lock
\* surfaces (lines 309-323)
RedrawCandidates ==
    [i \in 1..Len(layer_surfaces) |-> layer_surfaces[i].wl]
    \o [i \in 1..Len(popups) |-> popups[i].wl]
    \o [i \in 1..Len(lock_surfaces) |-> lock_surfaces[i].wl]

RECURSIVE RedrawEvents(_)
RedrawEvents(wls) ==
    IF wls = <<>> THEN <<>>
    ELSE (IF Head(wls) \in requested_frame THEN <<>>
          ELSE <<<<"RedrawRequested", Head(wls)>>>>)
         \o RedrawEvents(Tail(wls))

\* lines 290-338, followed by the AboutToWait that opens the next iteration
\* (line 280): dispatch() has returned, i.e. the wake-up ends
EndDispatch ==
    /\ Alive
    /\ act' = Label("EndDispatch", 0)
    /\ IF sctk_events = <<>>
       THEN /\ emitted' = <<<<"AboutToWait">>>>
            /\ requests' = <<>>
            /\ UNCHANGED sctk_events
       ELSE /\ sctk_events' = <<>>
            /\ emitted' = sctk_events \o RedrawEvents(RedrawCandidates)
                          \o <<<<"AboutToWait">>>>
            /\ requests' = <<<<"wake_up">>>>
    \* to_commit is not read anywhere in the loop
    /\ UNCHANGED <<globals, windows, layer_surfaces, popups, lock_surfaces,
                   session_lock, id_map, to_commit, requested_frame, ready, seats,
                   next_obj, panicked, idVars, threadVars>>

(***************************************************************************)
(* The popup tree, as the claims speak of it                               *)
(***************************************************************************)
\* the popups of ps whose parent chain passes through the surface wl
RECURSIVE DescendantsOf(_, _)
DescendantsOf(wls, ps) ==
    LET more == {ps[i].wl : i \in {j \in 1..Len(ps) :
                     ps[j].parent.kind = "Popup" /\ ps[j].parent.wl \in wls}}
    IN  IF more \subseteq wls THEN wls ELSE DescendantsOf(wls \cup more, ps)

Descendants(wl, ps) == DescendantsOf({wl}, ps) \ {wl}

PopupWls(ps) == {ps[i].wl : i \in 1..Len(ps)}

(***************************************************************************)
(* Specification of the popup tree: windows and layer surfaces as roots,   *)
(* popups created on them and on each other, popups destroyed.             *)
(***************************************************************************)
PopupSizes == {None, Some(<<1, 1>>)}

InitPopup == InitState(AllGlobals) /\ InitIds

NextPopup ==
    \/ \E id \in Ids : GetWindow(id, 1, 1, None)
    \/ \E id \in Ids : ActLayerSurface(id, {}, <<None, None>>)
    \/ \E id \in Ids, parent \in Ids, size \in PopupSizes, ok \in BOOLEAN :
          ActPopup(id, parent, size, FALSE, TRUE, ok)
    \/ \E id \in Ids : ActPopupDestroy(id)

SpecPopup == InitPopup /\ [][NextPopup]_vars

\* C1: handling Destroy of a registered popup p destroys every descendant popup
\* of p before p itself, and sends the UI a Done event for every descendant
\* before p's own Done (P2 on P1: Destroy(P1) yields PopupDone(P2), PopupDone(P1)).
C1_DestroyChildrenFirst ==
    [][\A id \in Ids :
         LET p == PosById(popups, id) IN
         (act'.name = "PopupDestroy" /\ act'.id = id /\ Alive /\ p # 0) =>
            LET me == popups[p].wl
                ds == Descendants(me, popups)
            IN  /\ ~panicked'
                /\ \A d \in ds \cup {me} :
                      /\ d \notin PopupWls(popups')
                      /\ IndexOf(emitted', <<"PopupDone", d>>) # 0
                      /\ IndexOf(requests', <<"popup.destroy", d>>) # 0
                /\ \A d \in ds :
                      /\ IndexOf(emitted', <<"PopupDone", d>>)
                            < IndexOf(emitted', <<"PopupDone", me>>)
                      /\ IndexOf(requests', <<"popup.destroy", d>>)
                            < IndexOf(requests', <<"popup.destroy", me>>)
       ]_vars

\* C11: after any sequence of create-popup and destroy actions the registered
\* popups form a forest rooted at non-popup surfaces: every registered popup
\* whose parent is a popup has that parent still registered.
C11_PopupsFormForest ==
    \A i \in 1..Len(popups) :
        popups[i].parent.kind = "Popup" => PosByWl(popups, popups[i].parent.wl) # 0


\* C30: creating a popup fails with ParentMissing when the parent id is in none
\* of the layer-surface, window and popup collections, and with SizeMissing
\* when the parent is found and the positioner has no size; whenever creation
\* fails, the popup collection and the id map are left as they were.
C30_FailedPopupLeavesNoTrace ==
    [][\A id \in Ids, parent \in Ids, size \in PopupSizes, ok \in BOOLEAN :
         LET res == GetPopupResult(parent, size, TRUE, ok)
             found == \/ PosById(layer_surfaces, parent) # 0
                      \/ PosById(windows, parent) # 0
                      \/ PosById(popups, parent) # 0
         IN  (act'.id = id /\ ActPopup(id, parent, size, FALSE, TRUE, ok)) =>
                /\ ~found => res = "ParentMissing"
                /\ (found /\ IsNone(size)) => res = "SizeMissing"
                /\ res # "Ok" => (popups' = popups /\ id_map' = id_map)
      ]_vars

\* C31: when the creation of a popup or of a layer surface fails, the failure
\* is reported to the UI with its reason: the handler sends an event for it.
C31_CreationFailureReported ==
    [][/\ \A id \in Ids, parent \in Ids, size \in PopupSizes, ok \in BOOLEAN :
            (/\ act'.id = id
             /\ GetPopupResult(parent, size, TRUE, ok) # "Ok"
             /\ ActPopup(id, parent, size, FALSE, TRUE, ok)) =>
                emitted' # <<>>
       /\ (act'.name = "LayerSurface" /\ layer_surfaces' = layer_surfaces) =>
             emitted' # <<>>
      ]_vars

\* C36: handling an action never aborts the dispatcher, whatever state it is
\* in: also a Destroy of a popup whose id, or whose parent popup, is not
\* registered is dropped and the dispatcher goes on.
C36_NoActionAborts == ~panicked

\* C37: Destroy of a registered popup p removes from the popup collection
\* exactly p and the popups that descend from p; the ancestors of p and the
\* popups of other subtrees stay registered.
C37_DestroyRemovesSubtreeOnly ==
    [][\A id \in Ids :
         LET p == PosById(popups, id) IN
         (act'.name = "PopupDestroy" /\ act'.id = id /\ Alive /\ p # 0) =>
            PopupWls(popups') =
               PopupWls(popups) \ ({popups[p].wl} \cup Descendants(popups[p].wl, popups))
      ]_vars

(***************************************************************************)
(* Specification of the commit scheduler: windows and layer surfaces take  *)
(* metadata and geometry actions during a wake-up, which then ends.        *)
(***************************************************************************)
Count(seq, e) == Cardinality({i \in 1..Len(seq) : seq[i] = e})

InitCommit == InitState(AllGlobals) /\ InitIds

CommitIds == 1..MaxCommitIds

NextCommit ==
    \/ \E id \in CommitIds : next_obj <= MaxCommitIds /\ GetWindow(id, 1, 1, None)
    \/ \E id \in CommitIds :
          next_obj <= MaxCommitIds /\ ActLayerSurface(id, {}, <<None, None>>)
    \/ \E id \in CommitIds, k \in {"set_title", "set_app_id"} :
          ActWindowRequest(k, id, "x")
    \/ \E id \in CommitIds : ActWindowSize(id, MaxDim, 1)
    \/ \E id \in CommitIds : ActLayerAnchor(id, {"TOP"})
    \/ \E i \in CommitIds : WindowConfigure(i, <<None, None>>, "normal")
    \/ \E wl \in CommitIds : ActPrePresentNotify(wl)
    \/ \E wl \in CommitIds : ActRequestRedraw(wl)
    \/ EndDispatch

SpecCommit == InitCommit /\ [][NextCommit]_vars

\* C2: at the end of every dispatcher wake-up the pending-commit map is drained:
\* every surface listed in it is committed exactly once, whatever actions put it
\* there and whether or not it is in the requested-frame set, and the map is
\* empty afterwards.
C2_PendingCommitsDrained ==
    [][act'.name = "EndDispatch" =>
          /\ to_commit' = EmptyMap
          /\ \A id \in DOMAIN to_commit :
                Count(requests', <<"commit", to_commit[id]>>) = 1
      ]_vars

\* C21: handling RequestRedraw(id) records id in the requested-frame set; the
\* id stays in the set until the surface's frame callback fires (no other
\* handler takes it out), and only then is a RedrawRequested event for that
\* surface dispatched to the UI.
C21_RequestRedrawRecordsId ==
    [][/\ act'.name = "RequestRedraw" => act'.id \in requested_frame'
       /\ requested_frame \subseteq requested_frame'
       /\ \A k \in 1..Len(emitted') : emitted'[k][1] # "RedrawRequested"
      ]_vars

\* C22: each surface has at most one outstanding frame callback: a
\* RedrawRequested event is dispatched for a surface only when a frame callback
\* requested through RequestRedraw fires, i.e. only for a surface that is in
\* the requested-frame set, which it then leaves, and once per request.
C22_RedrawOnlyWhenRequested ==
    [][\A k \in 1..Len(emitted') :
         emitted'[k][1] = "RedrawRequested" =>
            /\ emitted'[k][2] \in requested_frame
            /\ emitted'[k][2] \notin requested_frame'
            /\ Count(emitted', emitted'[k]) = 1
      ]_vars

\* the geometry actions of the model, by the name of their handler
GeometryActions ==
    {"WindowSize", "set_min_size", "set_max_size", "LayerSize", "LayerAnchor"}

\* C24: each geometry action (Size, MinSize, MaxSize, Anchor, ...) applied to a
\* registered surface adds the surface to the pending-commit set.
C24_GeometryActionsScheduleCommit ==
    [][\A id \in CommitIds :
         LET w == PosById(windows, id)
             l == PosById(layer_surfaces, id)
         IN  (act'.name \in GeometryActions /\ act'.id = id) =>
                /\ (act'.name \in {"WindowSize", "set_min_size", "set_max_size"}
                    /\ w # 0) =>
                      (id \in DOMAIN to_commit' /\ to_commit'[id] = windows[w].wl)
                /\ (act'.name \in {"LayerSize", "LayerAnchor"} /\ l # 0) =>
                      (id \in DOMAIN to_commit' /\ to_commit'[id] = layer_surfaces[l].wl)
      ]_vars

\* The commit scheduler under fair scheduling of the dispatcher: the loop of
\* SctkEventLoop::new keeps running, so a wake-up that can end does end.  What
\* the compositor and the application send is not subject to fairness.
SpecCommitFair == SpecCommit /\ WF_vars(EndDispatch)

\* C40: under fair scheduling of the dispatcher, every RequestRedraw for a
\* registered layer surface is eventually followed by a RedrawRequested event
\* for that surface, whether or not the compositor sends anything further.
C40_RequestRedrawLeadsToRedraw ==
    \A wl \in CommitIds :
        (act.name = "RequestRedraw" /\ act.id = wl /\ PosByWl(layer_surfaces, wl) # 0)
           ~> (IndexOf(emitted, <<"RedrawRequested", wl>>) # 0)

(***************************************************************************)
(* Session lock: get_lock_surface and the session_lock actions             *)
(***************************************************************************)
\* a constructor that makes a lock surface whether or not a lock is held
LockHeld_Always(lock) == TRUE

\* `if let Some(lock) = self.session_lock.as_ref()`: a lock surface is made only
\* while a lock is held
LockHeld(lock) == lock

\* a Lock that binds a lock whether or not one is held
LockBinds_Always(lock) == TRUE

\* `if self.session_lock.is_none()`, line 1097: Lock binds only when no lock is
\* held
LockBinds(lock) == ~lock

\* session_lock::Action::Lock, lines 1096-1101; session_lock_state.lock() fails
\* when the compositor lacks the protocol
ActLock ==
    /\ Alive
    /\ act' = Label("Lock", 0)
    /\ emitted' = <<>>
    /\ IF LockBinds(session_lock)
       THEN /\ session_lock' = globals.lock_ok
            /\ requests' = IF globals.lock_ok THEN <<<<"lock">>>> ELSE <<>>
       ELSE /\ requests' = <<>> /\ UNCHANGED session_lock
    /\ UNCHANGED <<globals, windows, layer_surfaces, popups, lock_surfaces, id_map,
                   to_commit, requested_frame, sctk_events, ready, seats, next_obj,
                   panicked, idVars, threadVars>>

\* an Unlock that does not wait for the server
UnlockRequests_NoRoundtrip(held) ==
    IF held THEN <<<<"unlock">>>> ELSE <<>>

\* the requests of session_lock::Action::Unlock, lines 1103-1107
UnlockRequests(held) ==
    (IF held THEN <<<<"unlock">>>> ELSE <<>>) \o <<<<"roundtrip">>>>

\* session_lock::Action::Unlock, lines 1102-1114: the SessionUnlocked event is
\* commented out
ActUnlock ==
    /\ Alive
    /\ act' = Label("Unlock", 0)
    /\ emitted' = <<>>
    /\ session_lock' = FALSE
    /\ requests' = UnlockRequests(session_lock)
    /\ UNCHANGED <<globals, windows, layer_surfaces, popups, lock_surfaces, id_map,
                   to_commit, requested_frame, sctk_events, ready, seats, next_obj,
                   panicked, idVars, threadVars>>

\* session_lock::Action::LockSurface with get_lock_surface, lines 745-783 and
\* 1115-1125: the created event is commented out
ActLockSurface(id) ==
    /\ Alive /\ CanCreate
    /\ act' = Label("LockSurface", id)
    /\ emitted' = <<>>
    /\ IF LockHeld(session_lock)
       THEN /\ id_map' = MapInsert(id_map, next_obj, id)
            /\ lock_surfaces' = Append(lock_surfaces,
                  [id |-> id, wl |-> next_obj, last_configure |-> None,
                   wp_viewport |-> NewViewport,
                   wp_fractional_scale |-> NewFractionalScale,
                   common |-> [fractional_scale |-> None, size |-> <<1, 1>>]])
            /\ next_obj' = next_obj + 1
            /\ requests' = <<<<"create_lock_surface", next_obj>>>>
       ELSE /\ requests' = <<>>
            /\ UNCHANGED <<id_map, lock_surfaces, next_obj>>
    /\ UNCHANGED <<globals, windows, layer_surfaces, popups, session_lock,
                   to_commit, requested_frame, sctk_events, ready, seats, panicked,
                   idVars, threadVars>>

\* session_lock::Action::DestroyLockSurface, lines 1126-1142: the Done event is
\* commented out
ActDestroyLockSurface(id) ==
    LET i == PosById(lock_surfaces, id) IN
    /\ Alive
    /\ act' = Label("DestroyLockSurface", id)
    /\ emitted' = <<>>
    /\ IF i = 0
       THEN /\ requests' = <<>> /\ UNCHANGED lock_surfaces
       ELSE /\ lock_surfaces' = RemoveAt(lock_surfaces, i)
            /\ requests' = <<<<"lock_surface.destroy", lock_surfaces[i].wl>>>>
    /\ UNCHANGED <<globals, windows, layer_surfaces, popups, session_lock, id_map,
                   to_commit, requested_frame, sctk_events, ready, seats, next_obj,
                   panicked, idVars, threadVars>>

(***************************************************************************)
(* SctkState::scale_factor_changed                                         *)
(***************************************************************************)
\* a handler that lets legacy scale changes through for every surface
ScaleReturnsEarly_Never(legacy, wp_fractional_scale) == FALSE

\* `if legacy && x.wp_fractional_scale.is_some() { return; }`
ScaleReturnsEarly(legacy, wp_fractional_scale) == legacy /\ wp_fractional_scale

\* a block that finds the surface and does not record the new scale
ScaleBlock_NoRecord(seq, wl, scale, legacy, isWindow) ==
    LET i == PosByWl(seq, wl) IN
    IF i = 0 THEN [seq |-> seq, found |-> FALSE, ret |-> FALSE]
    ELSE IF ScaleReturnsEarly(legacy, seq[i].wp_fractional_scale)
    THEN [seq |-> seq, found |-> TRUE, ret |-> TRUE]
    ELSE [seq |-> seq, found |-> TRUE, ret |-> FALSE]

\* One of the four `if let Some(x) = ..find(..)` blocks applied to a collection:
\* [seq: the collection afterwards, found, ret: the function returned early]
ScaleBlock(seq, wl, scale, legacy, isWindow) ==
    LET i == PosByWl(seq, wl) IN
    IF i = 0 THEN [seq |-> seq, found |-> FALSE, ret |-> FALSE]
    ELSE IF ScaleReturnsEarly(legacy, seq[i].wp_fractional_scale)
    THEN [seq |-> seq, found |-> TRUE, ret |-> TRUE]
    ELSE [seq |-> IF isWindow
                  THEN [seq EXCEPT ![i].scale_factor = Some(scale)]
                  ELSE [seq EXCEPT ![i].common.fractional_scale = Some(scale)],
          found |-> TRUE, ret |-> FALSE]

\* the id the function ends with: the last block that found the surface wins
ScaleId(wl) ==
    LET k == PosByWl(lock_surfaces, wl)
        l == PosByWl(layer_surfaces, wl)
        p == PosByWl(popups, wl)
        w == PosByWl(windows, wl)
    IN  IF k # 0 THEN Some(lock_surfaces[k].id)
        ELSE IF l # 0 THEN Some(layer_surfaces[l].id)
        ELSE IF p # 0 THEN Some(popups[p].id)
        ELSE IF w # 0 THEN Some(windows[w].id)
        ELSE None

\* scale_factor_changed(surface, scale_factor, legacy), lines 382-460; called by
\* the wl_surface scale handler (legacy) and the fractional-scale handler
ScaleFactorChanged(wl, scale, legacy) ==
    LET w == ScaleBlock(windows, wl, scale, legacy, TRUE)
        p == ScaleBlock(popups, wl, scale, legacy, FALSE)
        l == ScaleBlock(layer_surfaces, wl, scale, legacy, FALSE)
        k == ScaleBlock(lock_surfaces, wl, scale, legacy, FALSE)
        found == w.found \/ p.found \/ l.found \/ k.found
        ret == w.ret \/ p.ret \/ l.ret \/ k.ret
    IN
    /\ Alive
    /\ Len(sctk_events) < MaxPending
    /\ act' = Label(IF legacy THEN "ScaleFactorChangedLegacy"
                    ELSE "ScaleFactorChanged", wl)
    /\ emitted' = <<>>
    /\ windows' = w.seq
    /\ popups' = IF w.ret THEN popups ELSE p.seq
    /\ layer_surfaces' = IF w.ret \/ p.ret THEN layer_surfaces ELSE l.seq
    /\ lock_surfaces' = IF w.ret \/ p.ret \/ l.ret THEN lock_surfaces ELSE k.seq
    /\ requests' = IF legacy /\ found /\ ~ret
                   THEN <<<<"set_buffer_scale", wl, scale>>>> ELSE <<>>
    /\ sctk_events' = IF found /\ ~ret
                      THEN Append(sctk_events,
                             <<"SurfaceScaleFactorChanged", scale, wl,
                               Unwrap(ScaleId(wl))>>)
                      ELSE sctk_events
    /\ UNCHANGED <<globals, session_lock, id_map, to_commit, requested_frame,
                   ready, seats, next_obj, panicked, idVars, threadVars>>

(***************************************************************************)
(* Specification of scale changes: surfaces of the four kinds are created  *)
(* with or without a fractional-scale object (as the compositor offers     *)
(* it), and legacy and fractional scale events arrive for them.            *)
(***************************************************************************)
\* surfaces created in the scale specification
MaxScaleObj == 2
\* scale events waiting for the UI when the next scale change arrives
MaxScalePending == 1

\* the scale factors the compositor announces
Scales == {1, 2}

InitScale ==
    /\ \E g \in GlobalChoices :
          g.layer_shell /\ g.lock_ok /\ (g.viewporter = g.fractional)
          /\ InitState(g)
    /\ InitIds

NextScale ==
    \/ next_obj <= MaxScaleObj /\ GetWindow(next_obj, 1, 1, None)
    \/ next_obj <= MaxScaleObj /\ ActLayerSurface(next_obj, {}, <<None, None>>)
    \/ next_obj <= MaxScaleObj
          /\ ActPopup(next_obj, 1, Some(<<1, 1>>), FALSE, TRUE, TRUE)
    \/ ActLock
    \/ next_obj <= MaxScaleObj /\ ActLockSurface(next_obj)
    \/ \E wl \in 1..MaxScaleObj, scale \in Scales, legacy \in BOOLEAN :
          Len(sctk_events) < MaxScalePending /\ ScaleFactorChanged(wl, scale, legacy)
    \/ EndDispatch

SpecScale == InitScale /\ [][NextScale]_vars

\* the scale recorded for the surface wl in the given registry, None when the
\* surface is not registered
RecordedScale(ws, ps, ls, ks, wl) ==
    LET w == PosByWl(ws, wl)
        p == PosByWl(ps, wl)
        l == PosByWl(ls, wl)
        k == PosByWl(ks, wl)
    IN  IF w # 0 THEN ws[w].scale_factor
        ELSE IF p # 0 THEN ps[p].common.fractional_scale
        ELSE IF l # 0 THEN ls[l].common.fractional_scale
        ELSE IF k # 0 THEN ks[k].common.fractional_scale
        ELSE None

\* whether the registered surface wl has a fractional-scale object bound
HasFractionalScale(wl) ==
    \E seq \in {windows, popups, layer_surfaces, lock_surfaces} :
        PosByWl(seq, wl) # 0 /\ seq[PosByWl(seq, wl)].wp_fractional_scale

\* C3: for a surface that has a fractional-scale object bound, a legacy
\* (integer) scale change never changes the recorded scale and queues no
\* scale-factor-changed event; only fractional notifications take effect.
C3_LegacyScaleIgnored ==
    [][\A wl \in Objs :
         (act'.name = "ScaleFactorChangedLegacy" /\ act'.id = wl
          /\ HasFractionalScale(wl)) =>
            /\ RecordedScale(windows', popups', layer_surfaces', lock_surfaces', wl)
                 = RecordedScale(windows, popups, layer_surfaces, lock_surfaces, wl)
            /\ sctk_events' = sctk_events
            /\ requests' = <<>>
      ]_vars

\* a legacy scale change has just been handled for a fractionally scaled surface
\* whose recorded scale had been set by a fractional notification
C3_Witness ==
    /\ act.name = "ScaleFactorChangedLegacy"
    /\ HasFractionalScale(act.id)
    /\ IsSome(RecordedScale(windows, popups, layer_surfaces, lock_surfaces, act.id))

\* the surface wl is in one of the four registries
Registered(wl) ==
    \E seq \in {windows, popups, layer_surfaces, lock_surfaces} : PosByWl(seq, wl) # 0

MaxSizeObj == 1

\* the sizes a Configure may carry: each dimension absent or 1..MaxDim
ConfigureDims == {None} \cup {Some(n) : n \in 1..MaxDim}

InitViewport ==
    /\ \E g \in GlobalChoices :
          g.layer_shell /\ g.lock_ok /\ (g.viewporter = g.fractional)
          /\ InitState(g)
    /\ InitIds

NextViewport ==
    \/ \E w \in Dims, h \in 1..1 :
          next_obj <= MaxSizeObj /\ GetWindow(next_obj, w, h, None)
    \/ \E i \in 1..MaxSizeObj, w \in ConfigureDims, h \in {None, Some(1)} :
          sctk_events = <<>> /\ WindowConfigure(i, <<w, h>>, "normal")
    \/ \E id \in 1..MaxSizeObj, w \in Dims : ActWindowSize(id, w, 1)
    \/ EndDispatch

SpecViewport == InitViewport /\ [][NextViewport]_vars

\* C4: for every surface that has a viewport, after any Configure that
\* establishes size (w,h), whatever size the surface had before (its initial
\* size included), the viewport destination equals (w,h): the destination of a
\* configured surface always equals its current logical size.
C4_ViewportMatchesSize ==
    \A i \in 1..Len(windows) :
        (IsSome(windows[i].wp_viewport) /\ IsSome(windows[i].last_configure)) =>
            Unwrap(windows[i].wp_viewport) = windows[i].current_size

\* C14: for every registered window current_size is at least (1,1) in every
\* reachable state: creation with a zero dimension, a Size action with a zero
\* dimension and any Configure all leave both dimensions strictly positive.
C14_CurrentSizePositive ==
    \A i \in 1..Len(windows) :
        windows[i].current_size[1] >= 1 /\ windows[i].current_size[2] >= 1

\* a window has just been created with a zero width asked for, and is
\* registered one wide
C14_Witness ==
    /\ act.name = "GetWindow"
    /\ requests[1][3][1] = 0
    /\ windows[Len(windows)].current_size[1] = 1

(***************************************************************************)
(* Seats and the pointer handler (handlers/seat/pointer.rs)                *)
(***************************************************************************)
\* <linux/input-event-codes.h>
BTN_LEFT == 272
BTN_RIGHT == 273
BTN_MIDDLE == 274

\* wayland_button_to_winit, lines 232-250 (the buttons the model presses)
wayland_button_to_winit(button) ==
    IF button = BTN_LEFT THEN "Left"
    ELSE IF button = BTN_RIGHT THEN "Right"
    ELSE IF button = BTN_MIDDLE THEN "Middle"
    ELSE "Other"

\* a seat announced by the registry, with its pointer bound: the seat object is
\* a fresh Wayland object and goes to the end of the list
NewSeat ==
    /\ Alive /\ CanCreate
    /\ seats' = Append(seats,
          [seat |-> next_obj, ptr |-> TRUE, ptr_focus |-> None,
           last_ptr_press |-> None, last_kbd_press |-> None,
           active_icon |-> None, icon |-> None])
    /\ next_obj' = next_obj + 1
    /\ act' = Label("NewSeat", next_obj)
    /\ emitted' = <<>>
    /\ requests' = <<>>
    /\ UNCHANGED <<globals, windows, layer_surfaces, popups, lock_surfaces,
                   session_lock, id_map, to_commit, requested_frame, sctk_events,
                   ready, panicked, idVars, threadVars>>

\* a seat withdrawn by the registry leaves the list; the seats behind it move up
RemoveSeat(i) ==
    /\ Alive
    /\ i \in 1..Len(seats)
    /\ seats' = RemoveAt(seats, i)
    /\ act' = Label("RemoveSeat", seats[i].seat)
    /\ emitted' = <<>>
    /\ requests' = <<>>
    /\ UNCHANGED <<globals, windows, layer_surfaces, popups, lock_surfaces,
                   session_lock, id_map, to_commit, requested_frame, sctk_events,
                   ready, next_obj, panicked, idVars, threadVars>>

\* lines 27-37: the seat that owns the pointer (a seat's pointer is named like
\* its seat); 0 when no seat owns it
SeatOfPointer(pointer) ==
    First({i \in 1..Len(seats) : seats[i].ptr /\ seats[i].seat = pointer})

\* a handler for which every seat is active
IsActive_Always(i) == TRUE

\* line 35: `(i == 0, s)`, the first seat of the list is the active one
IsActive(i) == i = 1

\* a classification that tests the four edges before the four corners
ResizeEdgeOf_EdgesFirst(resizable, current_size, x, y) ==
    IF IsNone(resizable) THEN None
    ELSE LET border == Unwrap(resizable)
             left_edge == x < border
             top_edge == y < border
             right_edge == x > current_size[1] - border
             bottom_edge == y > current_size[2] - border
         IN  IF left_edge THEN Some("Left")
             ELSE IF right_edge THEN Some("Right")
             ELSE IF top_edge THEN Some("Top")
             ELSE IF bottom_edge THEN Some("Bottom")
             ELSE None

\* lines 47-76: the resize edge under (x, y) for a window, None when the window
\* is not resizable or the position is in its interior
ResizeEdgeOf(resizable, current_size, x, y) ==
    IF IsNone(resizable) THEN None
    ELSE LET border == Unwrap(resizable)
             width == current_size[1]
             height == current_size[2]
             left_edge == x < border
             top_edge == y < border
             right_edge == x > width - border
             bottom_edge == y > height - border
         IN  IF left_edge /\ top_edge THEN Some("TopLeft")
             ELSE IF left_edge /\ bottom_edge THEN Some("BottomLeft")
             ELSE IF right_edge /\ top_edge THEN Some("TopRight")
             ELSE IF right_edge /\ bottom_edge THEN Some("BottomRight")
             ELSE IF left_edge THEN Some("Left")
             ELSE IF right_edge THEN Some("Right")
             ELSE IF top_edge THEN Some("Top")
             ELSE IF bottom_edge THEN Some("Bottom")
             ELSE None

\* lines 42-46: only an event on a window's surface is hit-tested
HitTest(e) ==
    LET w == PosByWl(windows, e.surface) IN
    IF w = 0 THEN None
    ELSE ResizeEdgeOf(windows[w].resizable, windows[w].current_size,
                      e.position[1], e.position[2])

\* lines 79-89
ResizeIcon(resize_edge) ==
    CASE resize_edge = "Top" -> "NResize"
      [] resize_edge = "Bottom" -> "SResize"
      [] resize_edge = "Left" -> "WResize"
      [] resize_edge = "TopLeft" -> "NwResize"
      [] resize_edge = "BottomLeft" -> "SwResize"
      [] resize_edge = "Right" -> "EResize"
      [] resize_edge = "TopRight" -> "NeResize"
      [] resize_edge = "BottomRight" -> "SeResize"

\* SctkSeat::set_cursor, state.rs lines 108-114, on the running result r of the
\* frame: [seat, pushed, reqs, done]
SetCursor(r, icon) ==
    IF r.seat.ptr
    THEN [r EXCEPT !.seat.active_icon = Some(icon),
                   !.reqs = Append(@, <<"set_cursor", r.seat.seat, icon>>)]
    ELSE r

SetCursorIfNot(r, icon) ==
    IF r.seat.active_icon # Some(icon) THEN SetCursor(r, icon) ELSE r

\* lines 127-208: the event handed to the UI for a pointer event
UiEvent(e, seat) ==
    CASE e.kind = "Motion" -> <<"PointerEvent", "Motion", e.surface, e.position, seat>>
      [] e.kind = "Enter" -> <<"Winit", e.surface, "CursorEntered">>
      [] e.kind = "Leave" -> <<"Winit", e.surface, "CursorLeft">>
      [] e.kind = "Press" -> <<"Winit", e.surface, "MouseInput", "Pressed",
                               wayland_button_to_winit(e.button)>>
      [] e.kind = "Release" -> <<"Winit", e.surface, "MouseInput", "Released",
                                 wayland_button_to_winit(e.button)>>
      [] e.kind = "Axis" -> <<"Winit", e.surface, "MouseWheel">>

\* lines 127-226: forward on the active seat, then track focus and presses
ForwardAndTrack(r, is_active, e) ==
    LET f == IF is_active
             THEN [r EXCEPT !.pushed = Append(@, UiEvent(e, r.seat.seat))]
             ELSE r
    IN  CASE e.kind = "Enter" -> [f EXCEPT !.seat.ptr_focus = Some(e.surface)]
          [] e.kind = "Leave" -> [f EXCEPT !.seat.ptr_focus = None,
                                           !.seat.active_icon = None]
          [] e.kind = "Press" ->
                [f EXCEPT !.seat.last_ptr_press = Some(<<e.time, e.button, e.serial>>)]
          [] OTHER -> f

\* lines 40-227, the body of `for e in events` for one event; done = TRUE is
\* the `return` that leaves pointer_frame
PointerEventStep(r, is_active, e) ==
    LET hit == HitTest(e) IN
    IF IsSome(hit)
    THEN LET icon == ResizeIcon(Unwrap(hit)) IN
         IF e.kind = "Press" /\ e.button = BTN_LEFT
         THEN [r EXCEPT !.seat.last_ptr_press = Some(<<e.time, e.button, e.serial>>),
                        !.reqs = Append(@, <<"resize", e.surface, r.seat.seat,
                                             e.serial, Unwrap(hit)>>),
                        !.done = TRUE]
         ELSE IF e.kind = "Motion"
         THEN [SetCursorIfNot(r, icon) EXCEPT !.done = TRUE]
         ELSE ForwardAndTrack(SetCursorIfNot(r, icon), is_active, e)
    ELSE IF r.seat.active_icon # r.seat.icon
    THEN ForwardAndTrack(SetCursor(r, UnwrapOr(r.seat.icon, "Default")), is_active, e)
    ELSE ForwardAndTrack(r, is_active, e)

RECURSIVE PointerEventLoop(_, _, _)
PointerEventLoop(r, is_active, events) ==
    IF events = <<>> \/ r.done THEN r
    ELSE PointerEventLoop(PointerEventStep(r, is_active, Head(events)),
                          is_active, Tail(events))

\* PointerHandler::pointer_frame, lines 20-228
PointerFrame(pointer, events) ==
    LET i == SeatOfPointer(pointer)
        r == PointerEventLoop([seat |-> seats[i], pushed |-> <<>>, reqs |-> <<>>,
                               done |-> FALSE], IsActive(i), events)
    IN
    /\ Alive
    /\ Len(sctk_events) + Len(events) <= MaxPending
    /\ act' = Label("PointerFrame", pointer)
    /\ emitted' = <<>>
    /\ IF i = 0
       THEN /\ requests' = <<>>
            /\ UNCHANGED <<seats, sctk_events>>
       ELSE /\ seats' = [seats EXCEPT ![i] = r.seat]
            /\ sctk_events' = sctk_events \o r.pushed
            /\ requests' = r.reqs
    /\ UNCHANGED <<globals, windows, layer_surfaces, popups, lock_surfaces,
                   session_lock, id_map, to_commit, requested_frame, ready,
                   next_obj, panicked, idVars, threadVars>>

\* Action::SetCursor, event_loop/mod.rs lines 119-124: the first seat of the
\* list, when there is one, takes the icon as the application's and has it set
\* on its pointer
ActSetCursor(icon) ==
    LET r == SetCursor([seat |-> [seats[1] EXCEPT !.icon = Some(icon)],
                        pushed |-> <<>>, reqs |-> <<>>, done |-> FALSE], icon)
    IN
    /\ Alive
    /\ act' = Label("SetCursor", 0)
    /\ emitted' = <<>>
    /\ IF Len(seats) > 0
       THEN /\ seats' = [seats EXCEPT ![1] = r.seat]
            /\ requests' = r.reqs
       ELSE /\ requests' = <<>>
            /\ UNCHANGED seats
    /\ UNCHANGED <<globals, windows, layer_surfaces, popups, lock_surfaces,
                   session_lock, id_map, to_commit, requested_frame, sctk_events,
                   ready, next_obj, panicked, idVars, threadVars>>

(***************************************************************************)
(* Specification of the pointer handler: a window, resizable or not, one   *)
(* seat, and pointer frames of one or two events on the window.            *)
(***************************************************************************)
\* windows and seats in the pointer specification
MaxPtrWindows == 1
MaxPtrSeats == 1

PointerEventKinds ==
    {[kind |-> "Enter", button |-> 0], [kind |-> "Leave", button |-> 0],
     [kind |-> "Motion", button |-> 0],
     [kind |-> "Press", button |-> BTN_LEFT], [kind |-> "Press", button |-> BTN_RIGHT],
     [kind |-> "Release", button |-> BTN_LEFT]}

\* the pointer events of the given kinds on registered windows at the given
\* positions
PointerEventsOf(kinds, positions) ==
    {[kind |-> k.kind, button |-> k.button, surface |-> wl, position |-> pos,
      time |-> 0, serial |-> 1] :
        k \in kinds, wl \in {windows[i].wl : i \in 1..Len(windows)},
        pos \in positions}

PointerEventsAt(positions) == PointerEventsOf(PointerEventKinds, positions)

\* frames of one event, and of two events at one position of one surface
FramesOf(E) ==
    {<<e>> : e \in E}
    \cup {<<p[1], p[2]>> : p \in {q \in E \X E : /\ q[1].position = q[2].position
                                                /\ q[1].surface = q[2].surface}}

\* pointer positions on a MaxDim x MaxDim window
Positions == (0..MaxDim) \X (0..MaxDim)

\* the positions the frames of the specification use: a corner of the window,
\* a point on its top edge and a point in its middle
FramePositions == {<<0, 0>>, <<1, 0>>, <<1, 1>>}

InitPointer == InitState(AllGlobals) /\ InitIds

NextPointer ==
    \/ \E r \in {None, Some(1)} :
          Len(windows) < MaxPtrWindows /\ GetWindow(next_obj, MaxDim, MaxDim, r)
    \/ Len(seats) < MaxPtrSeats /\ NewSeat
    \/ \E pointer \in 1..(next_obj - 1),
          events \in FramesOf(PointerEventsAt(FramePositions)) :
          PointerFrame(pointer, events)
    \/ EndDispatch

SpecPointer == InitPointer /\ [][NextPointer]_vars

\* C7: pointer motion (and pointer enter) at a position inside the resize inset
\* of a resizable window queues no cursor-move event for the UI and leaves the
\* seat's current cursor icon at the resize arrow of the hit region.
C7_EdgeMotionSetsResizeIcon ==
    [][\A pointer \in Objs, events \in FramesOf(PointerEventsAt(FramePositions)) :
         LET i == SeatOfPointer(pointer)
             e == events[Len(events)]
             hit == HitTest(e)
         IN  (e.kind \in {"Motion", "Enter"} /\ IsSome(hit) /\ i # 0
              /\ PointerFrame(pointer, events)) =>
                /\ seats'[i].active_icon = Some(ResizeIcon(Unwrap(hit)))
                /\ \A k \in (Len(sctk_events) + 1)..Len(sctk_events') :
                      sctk_events'[k][1] # "PointerEvent"
      ]_vars

\* C16: a left-button press while the pointer is over a resize edge of a
\* resizable window issues an xdg-toplevel interactive resize with the hit edge
\* and that press's serial, records the press as the seat's last pointer
\* press, and is consumed: no mouse-press event for it is forwarded to the UI.
C16_EdgePressStartsResize ==
    [][\A pointer \in Objs, events \in FramesOf(PointerEventsAt(FramePositions)) :
         LET i == SeatOfPointer(pointer)
             e == events[Len(events)]
             hit == HitTest(e)
         IN  (e.kind = "Press" /\ e.button = BTN_LEFT /\ IsSome(hit) /\ i # 0
              /\ PointerFrame(pointer, events)) =>
                /\ IndexOf(requests', <<"resize", e.surface, seats[i].seat,
                                         e.serial, Unwrap(hit)>>) # 0
                /\ seats'[i].last_ptr_press = Some(<<e.time, e.button, e.serial>>)
                /\ Len(sctk_events') - Len(sctk_events) < Len(events)
                /\ \A k \in (Len(sctk_events) + 1)..Len(sctk_events') :
                      sctk_events'[k] # UiEvent(e, seats[i].seat)
      ]_vars

(***************************************************************************)
(* Specification of seat activity: seats come and go, a window exists or   *)
(* not, and every seat's pointer delivers frames of one event.             *)
(***************************************************************************)
\* seats present at a time
MaxSeats == 2
\* events waiting for the UI when a frame arrives
MaxSeatPending == 1

\* the events a seat's pointer delivers: motions and left presses on a corner
\* and in the middle of the window
SeatEvents ==
    PointerEventsOf({k \in PointerEventKinds :
                        k.kind = "Motion" \/ (k.kind = "Press" /\ k.button = BTN_LEFT)},
                    {<<0, 0>>, <<1, 1>>})

InitSeats == InitState(AllGlobals) /\ InitIds

NextSeats ==
    \/ \E r \in {None, Some(1)} :
          windows = <<>> /\ GetWindow(next_obj, MaxDim, MaxDim, r)
    \/ Len(seats) < MaxSeats /\ NewSeat
    \/ \E i \in 1..MaxSeats : RemoveSeat(i)
    \/ \E pointer \in 1..(next_obj - 1), e \in SeatEvents :
          Len(sctk_events) < MaxSeatPending /\ PointerFrame(pointer, <<e>>)
    \/ EndDispatch

SpecSeats == InitSeats /\ [][NextSeats]_vars

\* the handler keeps the event to itself: a left press or a motion on a resize edge
ConsumedOnEdge(e) ==
    IsSome(HitTest(e)) /\ (e.kind = "Motion" \/ (e.kind = "Press" /\ e.button = BTN_LEFT))

\* C6: only input on the active seat, the first of the seat list, produces UI
\* events: a pointer frame of any other seat queues nothing, and a frame of the
\* first seat, also of a seat that became first when the seats before it were
\* removed, queues its event for the UI (unless a resize edge consumes it).
C6_OnlyActiveSeatForwards ==
    [][act'.name = "PointerFrame" =>
         LET i == SeatOfPointer(act'.id) IN
         /\ i # 1 => sctk_events' = sctk_events
         /\ i = 1 =>
              \A e \in SeatEvents :
                  (~ConsumedOnEdge(e) /\ PointerFrame(act'.id, <<e>>)) =>
                      /\ Len(sctk_events') = Len(sctk_events) + 1
                      /\ SubSeq(sctk_events', 1, Len(sctk_events)) = sctk_events
                      /\ sctk_events'[Len(sctk_events')][1] \in {"PointerEvent", "Winit"}
      ]_vars

\* the seat that is first now was added after a seat that has since been removed
\* (an older object that is neither a window nor a present seat), its pointer
\* has just delivered a frame, and a motion of it waits in the queue for the UI
C6_Witness ==
    /\ act.name = "PointerFrame"
    /\ Len(seats) > 0
    /\ act.id = seats[1].seat
    /\ \E o \in 1..(seats[1].seat - 1) :
          /\ PosByWl(windows, o) = 0
          /\ \A s \in 1..Len(seats) : seats[s].seat # o
    /\ \E k \in 1..Len(sctk_events) :
          sctk_events[k][1] = "PointerEvent" /\ sctk_events[k][5] = seats[1].seat

\* C39: within one pointer frame, an event consumed over a resize edge (a left
\* press or a motion) affects only itself: the event behind it in the frame is
\* still processed, so the seat's focus and last press are updated for it and,
\* on the active seat, it is queued for the UI unless it is consumed as well.
C39_EdgeConsumesOneEvent ==
    [][\A pointer \in Objs, events \in FramesOf(PointerEventsAt(FramePositions)) :
         LET i == SeatOfPointer(pointer) IN
         (/\ act'.id = pointer
          /\ Len(events) = 2
          /\ i # 0
          /\ ConsumedOnEdge(events[1])
          /\ PointerFrame(pointer, events)) =>
            LET e == events[2] IN
            /\ e.kind = "Enter" => seats'[i].ptr_focus = Some(e.surface)
            /\ e.kind = "Leave" => seats'[i].ptr_focus = None
            /\ e.kind = "Press" =>
                  seats'[i].last_ptr_press = Some(<<e.time, e.button, e.serial>>)
            /\ (IsActive(i) /\ ~ConsumedOnEdge(e)) =>
                  \E k \in (Len(sctk_events) + 1)..Len(sctk_events') :
                      sctk_events'[k] = UiEvent(e, seats[i].seat)
      ]_vars

(***************************************************************************)
(* Specification of the cursor icon: a resizable window, up to two seats,  *)
(* the application's SetCursor, and pointer frames of one or two events on *)
(* the top-left corner and in the middle of the window.                    *)
(***************************************************************************)
\* seats present at a time in the cursor specification
MaxCursorSeats == 2

\* the icons the application asks for
CursorIcons == {"Text"}

\* the arrows of the resize edges
ResizeIcons == {"NResize", "SResize", "WResize", "NwResize", "SwResize",
                "EResize", "NeResize", "SeResize"}

CursorEvents ==
    PointerEventsOf({k \in PointerEventKinds :
                        k.kind # "Release" /\ k.button # BTN_RIGHT},
                    {<<0, 0>>, <<1, 1>>})

\* frames of one event, and of two events of one surface that begin on the
\* corner
CursorFrames ==
    {<<e>> : e \in CursorEvents}
    \cup {<<p[1], p[2]>> : p \in {q \in CursorEvents \X CursorEvents :
                                     /\ q[1].surface = q[2].surface
                                     /\ q[1].position = <<0, 0>>}}

InitCursor == InitState(AllGlobals) /\ InitIds

NextCursor ==
    \/ windows = <<>> /\ GetWindow(next_obj, MaxDim, MaxDim, Some(1))
    \/ Len(seats) < MaxCursorSeats /\ NewSeat
    \/ \E icon \in CursorIcons : ActSetCursor(icon)
    \/ \E pointer \in 1..(next_obj - 1), events \in CursorFrames :
          sctk_events = <<>> /\ PointerFrame(pointer, events)
    \/ EndDispatch

SpecCursor == InitCursor /\ [][NextCursor]_vars

\* C25: SetCursor(icon) makes icon the application-requested icon of every
\* tracked seat, not only of the active one.
C25_SetCursorOnEverySeat ==
    [][\A icon \in CursorIcons :
         ActSetCursor(icon) =>
            \A i \in 1..Len(seats') : seats'[i].icon = Some(icon)
      ]_vars

\* C26: while the active seat shows a resize arrow because its pointer is
\* inside the resize inset, SetCursor(icon) changes only the
\* application-requested icon: the currently-set icon stays the resize arrow
\* and no cursor is set on the pointer.
C26_SetCursorKeepsResizeArrow ==
    [][\A icon \in CursorIcons :
         (/\ Len(seats) > 0
          /\ IsSome(seats[1].active_icon)
          /\ Unwrap(seats[1].active_icon) \in ResizeIcons
          /\ ActSetCursor(icon)) =>
            /\ seats'[1].icon = Some(icon)
            /\ seats'[1].active_icon = seats[1].active_icon
            /\ requests' = <<>>
      ]_vars

\* the icon last set on the pointer of a seat by the requests of a step, None
\* when the step set none
LastCursorSet(reqs, seat) ==
    LET ks == {k \in 1..Len(reqs) : reqs[k][1] = "set_cursor" /\ reqs[k][2] = seat}
    IN  IF ks = {} THEN None
        ELSE Some(reqs[CHOOSE k \in ks : \A j \in ks : j <= k][3])

\* the last event of a frame that is of one of the kinds, None when there is none
LastOfKinds(events, kinds) ==
    LET ks == {k \in 1..Len(events) : events[k].kind \in kinds}
    IN  IF ks = {} THEN None
        ELSE Some(events[CHOOSE k \in ks : \A j \in ks : j <= k])

\* C27: after a pointer leave, and after a pointer event outside the resize
\* inset that follows an edge hover, the cursor the seat's pointer displays is
\* the application-requested icon, or the default icon when the application
\* requested none.
C27_CursorRestoredOffEdge ==
    [][\A pointer \in Objs, events \in CursorFrames :
         LET i == SeatOfPointer(pointer)
             e == events[Len(events)]
             hovered == \/ /\ IsSome(seats[i].active_icon)
                           /\ Unwrap(seats[i].active_icon) \in ResizeIcons
                        \/ \E k \in 1..(Len(events) - 1) : IsSome(HitTest(events[k]))
             set == LastCursorSet(requests', seats[i].seat)
             displayed == IF IsSome(set) THEN Unwrap(set)
                          ELSE UnwrapOr(seats[i].active_icon, "Default")
         IN  (/\ i # 0
              /\ act'.id = pointer
              /\ e.kind = "Leave" \/ (IsNone(HitTest(e)) /\ hovered)
              /\ PointerFrame(pointer, events)) =>
                displayed = UnwrapOr(seats'[i].icon, "Default")
      ]_vars

\* C28: a pointer frame of a seat that is not the active one still updates
\* that seat: its pointer focus is the surface of the last enter and is
\* cleared by a leave, and its last pointer press is (time, button, serial) of
\* the last press of the frame.
C28_InactiveSeatTracksPointer ==
    [][\A pointer \in Objs, events \in CursorFrames :
         LET i == SeatOfPointer(pointer)
             focus == LastOfKinds(events, {"Enter", "Leave"})
             press == LastOfKinds(events, {"Press"})
         IN  (/\ i > 1
              /\ act'.id = pointer
              /\ PointerFrame(pointer, events)) =>
                /\ IsSome(focus) =>
                      seats'[i].ptr_focus =
                         IF Unwrap(focus).kind = "Enter"
                         THEN Some(Unwrap(focus).surface) ELSE None
                /\ IsSome(press) =>
                      seats'[i].last_ptr_press =
                         Some(<<Unwrap(press).time, Unwrap(press).button,
                                Unwrap(press).serial>>)
      ]_vars

(***************************************************************************)
(* Specification of the session lock: the lock is taken and released, lock *)
(* surfaces are asked for and destroyed, while windows and layer surfaces  *)
(* are created, take requests and scale changes, and wake-ups end.         *)
(***************************************************************************)
\* surfaces created in the session-lock specification
MaxLockObj == 2

InitLock ==
    /\ \E g \in GlobalChoices :
          g.layer_shell /\ g.viewporter /\ InitState(g)
    /\ InitIds

NextLock ==
    \/ ActLock
    \/ ActUnlock
    \/ next_obj <= MaxLockObj /\ ActLockSurface(next_obj)
    \/ \E id \in 1..MaxLockObj : ActDestroyLockSurface(id)
    \/ next_obj <= MaxLockObj /\ GetWindow(next_obj, 1, 1, None)
    \/ next_obj <= MaxLockObj /\ ActLayerSurface(next_obj, {}, <<None, None>>)
    \/ \E id \in 1..MaxLockObj : ActWindowRequest("set_title", id, "x")
    \/ \E id \in 1..MaxLockObj : ActLayerDestroy(id)
    \/ \E wl \in 1..MaxLockObj : ScaleFactorChanged(wl, 1, FALSE)
    \/ EndDispatch

SpecLock == InitLock /\ [][NextLock]_vars

\* C8: after an Unlock has been handled every LockSurface action is dropped, no
\* lock surface is created or registered, until a new Lock action has bound a
\* session-lock object.
C8_LockSurfaceDroppedWhenUnlocked ==
    [][(act'.name = "LockSurface" /\ ~session_lock) =>
          /\ lock_surfaces' = lock_surfaces
          /\ id_map' = id_map
          /\ next_obj' = next_obj
          /\ requests' = <<>>
      ]_vars

\* a LockSurface action has just been handled with no lock held, after a lock
\* that had produced a lock surface was released
C8_Witness ==
    /\ act.name = "LockSurface"
    /\ ~session_lock
    /\ Len(lock_surfaces) > 0

\* C9: handling Unlock destroys the held session-lock object and then performs
\* exactly one synchronous roundtrip, inside the handler and so before anything
\* else is handled; no other action or event handler performs a roundtrip.
C9_UnlockRoundtripsOnce ==
    [][/\ act'.name = "Unlock" =>
            /\ Count(requests', <<"roundtrip">>) = 1
            /\ requests'[Len(requests')] = <<"roundtrip">>
            /\ session_lock =>
                  /\ Count(requests', <<"unlock">>) = 1
                  /\ IndexOf(requests', <<"unlock">>) < IndexOf(requests', <<"roundtrip">>)
            /\ ~session_lock'
       /\ act'.name # "Unlock" => Count(requests', <<"roundtrip">>) = 0
      ]_vars

\* an Unlock with the lock held has just been handled
C9_Witness ==
    /\ act.name = "Unlock"
    /\ requests = <<<<"unlock">>, <<"roundtrip">>>>

\* C12: in every reachable state lock surfaces are registered only while a
\* session-lock object is held: whenever the session lock is absent (never
\* locked, or after Unlock) the lock-surface collection is empty.
C12_LockSurfacesOnlyWhileLocked ==
    ~session_lock => lock_surfaces = <<>>

\* C29: Lock is idempotent: a Lock handled while a session-lock object is held
\* binds no second lock and leaves the held lock, the lock surfaces and the
\* rest of the state as they were, so Lock;Lock ends where a single Lock ends.
C29_LockIdempotent ==
    [][(act'.name = "Lock" /\ session_lock) =>
          /\ requests' = <<>>
          /\ session_lock'
          /\ lock_surfaces' = lock_surfaces
          /\ UNCHANGED <<globals, windows, layer_surfaces, popups, id_map,
                         to_commit, requested_frame, sctk_events, ready, seats,
                         next_obj, panicked>>
      ]_vars

\* a Lock has just been handled while a lock with a lock surface was held: the
\* lock is still held and nothing was sent to the compositor
C29_Witness ==
    /\ act.name = "Lock"
    /\ session_lock
    /\ requests = <<>>
    /\ Len(lock_surfaces) > 0

(***************************************************************************)
(* The id generators of accessibility/src/id.rs                            *)
(***************************************************************************)
\* ids minted in the id specification
MaxMints == 4

Mints == Len(minted.window) + Cardinality(minted.widget)

idUnchanged == <<globals, windows, layer_surfaces, popups, lock_surfaces,
                 session_lock, id_map, to_commit, requested_frame, sctk_events,
                 ready, seats, next_obj, panicked, emitted, requests,
                 threadVars>>

\* Id::next, lines 86-88: fetch_add returns the value before the addition
IdNext(unique) ==
    /\ NEXT_ID' = Add64(NEXT_ID, U64(1))
    /\ minted' = [minted EXCEPT !.widget = @ \cup {NEXT_ID},
                                !.unique = IF unique THEN @ \cup {NEXT_ID} ELSE @]

\* Id::unique, lines 93-97
IdUnique ==
    /\ Mints < MaxMints
    /\ IdNext(TRUE)
    /\ act' = Label("Id::unique", 0)
    /\ UNCHANGED <<idUnchanged, NEXT_WINDOW_ID>>

\* Id::new, lines 77-79
IdNew ==
    /\ Mints < MaxMints
    /\ IdNext(FALSE)
    /\ act' = Label("Id::new", 0)
    /\ UNCHANGED <<idUnchanged, NEXT_WINDOW_ID>>

\* Id::reset, lines 82-84
IdReset ==
    /\ NEXT_ID' = U64(1)
    /\ act' = Label("Id::reset", 0)
    /\ UNCHANGED <<idUnchanged, NEXT_WINDOW_ID, minted>>

\* window_node_id, lines 139-142
WindowNodeId ==
    /\ Mints < MaxMints
    /\ NEXT_WINDOW_ID' = Add64(NEXT_WINDOW_ID, U64(1))
    /\ minted' = [minted EXCEPT !.window = Append(@, Add64(U32_MAX, NEXT_WINDOW_ID))]
    /\ act' = Label("window_node_id", 0)
    /\ UNCHANGED <<idUnchanged, NEXT_ID>>

(***************************************************************************)
(* Specification of the id generators.  The widget counter starts at 1; a  *)
(* program that has built its widget tree often enough has counted it up   *)
(* to any value, and the specification also starts from the counter values *)
(* a few calls below 2^32.                                                 *)
(***************************************************************************)
InitId ==
    /\ InitState(AllGlobals)
    /\ NEXT_ID \in {U64(1)} \cup {<<0, 0, Limb - 1, Limb - k>> : k \in 1..MaxMints}
    /\ NEXT_WINDOW_ID = U64(1)
    /\ minted = [window |-> <<>>, widget |-> {}, unique |-> {}]

NextId ==
    \/ IdUnique
    \/ IdNew
    \/ IdReset
    \/ WindowNodeId

SpecId == InitId /\ [][NextId]_vars

\* C10: every id minted by window_node_id differs from every id minted by
\* Id::unique / Id::new, window ids lying strictly above the 32-bit range, and
\* successive window ids are strictly increasing.
C10_WindowIdsDisjointFromWidgetIds ==
    /\ \A i \in 1..Len(minted.window) :
          /\ minted.window[i] \notin minted.widget
          /\ Lt64(U32_MAX, minted.window[i])
    /\ \A i \in 1..Len(minted.window), j \in 1..Len(minted.window) :
          i < j => Lt64(minted.window[i], minted.window[j])

\* C35: every call of Id::unique produces an Id that differs from the Ids of
\* all earlier calls of Id::unique, whatever calls of Id::unique, Id::new and
\* Id::reset came before.
C35_UniqueIdsDiffer ==
    [][act'.name = "Id::unique" => NEXT_ID \notin minted.unique]_vars

(***************************************************************************)
(* Specification of the resize hit test: windows, resizable or not, and    *)
(* seats whose pointers move over every position of the windows.           *)
(***************************************************************************)
\* windows and seats in the hit-test specification
MaxHitObj == 2
\* motions waiting for the UI when the next frame arrives
MaxHitPending == 1

InitHitTest == InitState(AllGlobals) /\ InitIds

NextHitTest ==
    \/ \E r \in {None, Some(1)} :
          next_obj <= MaxHitObj /\ GetWindow(next_obj, MaxDim, MaxDim, r)
    \/ next_obj <= MaxHitObj /\ NewSeat
    \/ \E pointer \in 1..(next_obj - 1),
          e \in PointerEventsOf({k \in PointerEventKinds : k.kind = "Motion"}, Positions) :
          Len(sctk_events) < MaxHitPending /\ PointerFrame(pointer, <<e>>)
    \/ EndDispatch

SpecHitTest == InitHitTest /\ [][NextHitTest]_vars

ResizeCorners == {"TopLeft", "TopRight", "BottomLeft", "BottomRight"}
ResizeSides == {"Left", "Right", "Top", "Bottom"}

\* C5: for a resizable window of size (W,H) with border b every pointer
\* position (x,y) falls in exactly one of nine regions: a corner iff both axes
\* are within b of their edges (corners before edges), an edge iff exactly one
\* axis is within b, the interior iff both coordinates are at least b away from
\* every edge; a window that is not resizable never yields a resize edge.
C5_HitTestNineRegions ==
    \A i \in 1..Len(windows), pos \in Positions :
        LET win == windows[i]
            x == pos[1]
            y == pos[2]
            W == win.current_size[1]
            H == win.current_size[2]
            edge == ResizeEdgeOf(win.resizable, win.current_size, x, y)
        IN  IF IsNone(win.resizable) THEN edge = None
            ELSE LET b == Unwrap(win.resizable)
                     nearL == x - 0 < b
                     nearR == W - x < b
                     nearT == y - 0 < b
                     nearB == H - y < b
                     nearX == nearL \/ nearR
                     nearY == nearT \/ nearB
                 IN  /\ (edge \in {Some(c) : c \in ResizeCorners}) <=> (nearX /\ nearY)
                     /\ (edge \in {Some(s) : s \in ResizeSides}) <=> (nearX # nearY)
                     /\ (edge = None) <=> (x >= b /\ W - x >= b /\ y >= b /\ H - y >= b)
                     /\ edge = Some("TopLeft") => nearL /\ nearT
                     /\ edge = Some("TopRight") => nearR /\ nearT
                     /\ edge = Some("BottomLeft") => nearL /\ nearB
                     /\ edge = Some("BottomRight") => nearR /\ nearB
                     /\ edge = Some("Left") => nearL
                     /\ edge = Some("Right") => nearR
                     /\ edge = Some("Top") => nearT
                     /\ edge = Some("Bottom") => nearB

\* a pointer frame over the corner of a resizable window has just put up the
\* corner's resize arrow
C5_Witness ==
    /\ act.name = "PointerFrame"
    /\ \E i \in 1..Len(windows) : IsSome(windows[i].resizable)
    /\ \E s \in 1..Len(seats) :
          IndexOf(requests, <<"set_cursor", seats[s].seat, "NwResize">>) # 0

(***************************************************************************)
(* Specification of layer-surface geometry: layer surfaces are created     *)
(* with an anchor and a size, then resized, re-anchored and destroyed.     *)
(***************************************************************************)
\* layer surfaces created in the layer specification
MaxLayerObj == 1

\* the anchors the actions carry: none, one edge, both edges of an axis, all
LayerAnchors == {{}, {"TOP"}, {"TOP", "BOTTOM"}, {"LEFT", "RIGHT"}, Anchors}

\* an optional dimension of a layer surface: absent, zero or 1..MaxDim
LayerDims == {None} \cup {Some(n) : n \in Dims}

InitLayer == InitState(AllGlobals) /\ InitIds

NextLayer ==
    \/ \E anchor \in LayerAnchors, w \in LayerDims, h \in LayerDims :
          next_obj <= MaxLayerObj /\ ActLayerSurface(next_obj, anchor, <<w, h>>)
    \/ \E id \in 1..MaxLayerObj, w \in LayerDims, h \in LayerDims :
          ActLayerSize(id, w, h)
    \/ \E id \in 1..MaxLayerObj, anchor \in LayerAnchors : ActLayerAnchor(id, anchor)
    \/ \E id \in 1..MaxLayerObj : ActLayerDestroy(id)
    \/ EndDispatch

SpecLayer == InitLayer /\ [][NextLayer]_vars

\* C13: for every registered layer surface, after any sequence of create, Size
\* and Anchor actions: if both TOP and BOTTOM anchors are set the requested
\* height is null, and if both LEFT and RIGHT anchors are set the requested
\* width is null.
C13_StretchedDimensionIsNull ==
    \A i \in 1..Len(layer_surfaces) :
        LET l == layer_surfaces[i] IN
        /\ {"TOP", "BOTTOM"} \subseteq l.anchor => l.requested_size[2] = None
        /\ {"LEFT", "RIGHT"} \subseteq l.anchor => l.requested_size[1] = None

(***************************************************************************)
(* Specification of the action executor: surfaces of the four kinds are    *)
(* created, and the actions that name a SurfaceId arrive for ids that are  *)
(* registered, were registered once, or never were.                        *)
(***************************************************************************)
\* surfaces created, and SurfaceIds named, in the executor specification
MaxActObj == 2

ActIds == 1..MaxActObj

InitActions == InitState(AllGlobals) /\ InitIds

NextActions ==
    \/ next_obj <= MaxActObj /\ GetWindow(next_obj, 1, 1, None)
    \/ next_obj <= MaxActObj /\ ActLayerSurface(next_obj, {}, <<None, None>>)
    \/ \E parent \in ActIds :
          next_obj <= MaxActObj
          /\ ActPopup(next_obj, parent, Some(<<1, 1>>), FALSE, TRUE, TRUE)
    \/ ActLock
    \/ next_obj <= MaxActObj /\ ActLockSurface(next_obj)
    \/ \E id \in ActIds : ActWindowSize(id, 1, MaxDim)
    \/ \E id \in ActIds : ActWindowRequest("set_title", id, "x")
    \/ \E id \in ActIds : ActWindowDestroy(id)
    \/ \E id \in ActIds : ActLayerSize(id, Some(1), None)
    \/ \E id \in ActIds : ActLayerAnchor(id, {"TOP"})
    \/ \E id \in ActIds : ActLayerDestroy(id)
    \/ \E id \in ActIds : ActPopupDestroy(id)
    \/ \E id \in ActIds : ActDestroyLockSurface(id)
    \/ EndDispatch

SpecActions == InitActions /\ [][NextActions]_vars

\* C32: after any sequence of creates and destroys the id map has an entry for
\* an object id exactly when a surface with that object id is registered: an
\* entry is the entry of a registered surface, and every registered popup,
\* layer surface and lock surface (the surfaces get_popup, get_layer_surface
\* and get_lock_surface make) has its entry.
C32_IdMapMatchesRegistries ==
    \A o \in Objs :
        /\ o \in DOMAIN id_map => Registered(o)
        /\ (\E seq \in {popups, layer_surfaces, lock_surfaces} : PosByWl(seq, o) # 0)
              => o \in DOMAIN id_map

\* the registry an action targets, by the action's name
TargetRegistry(name) ==
    CASE name \in {"WindowSize", "WindowDestroy"} \cup WindowRequestKinds -> windows
      [] name \in {"LayerSize", "LayerAnchor", "LayerDestroy"} -> layer_surfaces
      [] name = "PopupDestroy" -> popups
      [] name = "DestroyLockSurface" -> lock_surfaces
      [] OTHER -> <<>>

TargetedActions ==
    {"WindowSize", "WindowDestroy", "LayerSize", "LayerAnchor", "LayerDestroy",
     "PopupDestroy", "DestroyLockSurface"} \cup WindowRequestKinds

\* C15: every action that names a SurfaceId not present in the registry it
\* targets, a Destroy of an already closed popup, window, layer surface or lock
\* surface included, is ignored: the dispatcher state is left unchanged, no
\* event is sent to the UI and the dispatcher keeps handling later actions.
C15_UnknownIdIgnored ==
    [][(act'.name \in TargetedActions
        /\ PosById(TargetRegistry(act'.name), act'.id) = 0) =>
          /\ UNCHANGED <<windows, layer_surfaces, popups, lock_surfaces,
                         session_lock, id_map, to_commit, requested_frame,
                         sctk_events, seats>>
          /\ emitted' = <<>>
          /\ requests' = <<>>
          /\ ~panicked'
      ]_vars

\* the event that tells the UI a surface is gone, by the Destroy action's name
DoneEvent(name, wl) ==
    CASE name = "WindowDestroy" -> <<"WindowClose", wl>>
      [] name = "LayerDestroy" -> <<"LayerDone", wl>>
      [] name = "DestroyLockSurface" -> <<"SessionLockSurfaceDone", wl>>

\* C19: handling Destroy for a registered window, layer surface or lock
\* surface removes its record and sends the UI exactly one Done event (Close
\* for a window) for that surface.
C19_DestroySendsDone ==
    [][\A name \in {"WindowDestroy", "LayerDestroy", "DestroyLockSurface"} :
         LET reg == TargetRegistry(name)
             i == PosById(reg, act'.id)
         IN  (act'.name = name /\ i # 0) =>
                /\ Len(TargetRegistry(name)') = Len(reg) - 1
                /\ PosByWl(TargetRegistry(name)', reg[i].wl) = 0
                /\ Count(emitted', DoneEvent(name, reg[i].wl)) = 1
                /\ Len(emitted') = 1
      ]_vars

(***************************************************************************)
(* Specification of destruction: windows and layer surfaces are created    *)
(* and destroyed while the compositor configures them, rescales them and   *)
(* moves a pointer over them, also after they were destroyed.              *)
(***************************************************************************)
\* objects (surfaces and the seat) created in the destruction specification
MaxDestroyObj == 3
\* events waiting for the UI when the next protocol event arrives
MaxDestroyPending == 1

\* pointer motions and enters on any surface the compositor has handed out
DestroyPointerEvents ==
    {[kind |-> k, button |-> 0, surface |-> wl, position |-> <<1, 1>>,
      time |-> 0, serial |-> 1] : k \in {"Motion", "Enter"}, wl \in 1..(next_obj - 1)}

InitDestroy == InitState(AllGlobals) /\ InitIds

NextDestroy ==
    \/ next_obj <= MaxDestroyObj /\ GetWindow(next_obj, MaxDim, MaxDim, None)
    \/ next_obj <= MaxDestroyObj /\ ActLayerSurface(next_obj, {}, <<None, None>>)
    \/ next_obj <= MaxDestroyObj /\ seats = <<>> /\ NewSeat
    \/ \E i \in 1..MaxDestroyObj :
          Len(sctk_events) < MaxDestroyPending
          /\ WindowConfigure(i, <<None, None>>, "normal")
    \/ \E wl \in 1..MaxDestroyObj :
          Len(sctk_events) < MaxDestroyPending /\ ScaleFactorChanged(wl, 2, FALSE)
    \/ \E pointer \in 1..(next_obj - 1), e \in DestroyPointerEvents :
          Len(sctk_events) < MaxDestroyPending /\ PointerFrame(pointer, <<e>>)
    \/ \E id \in 1..MaxDestroyObj : ActWindowDestroy(id)
    \/ \E id \in 1..MaxDestroyObj : ActLayerDestroy(id)
    \/ EndDispatch

SpecDestroy == InitDestroy /\ [][NextDestroy]_vars

\* the surface an event sent to the UI is about, 0 for an event about none
EventSurface(ev) ==
    CASE ev[1] \in {"SurfaceScaleFactorChanged", "PointerEvent"} -> ev[3]
      [] ev[1] = "AboutToWait" -> 0
      [] OTHER -> ev[2]

\* the surface wl was handed out and is no longer registered: its Destroy has
\* been handled
Destroyed(wl) ==
    /\ wl \in 1..(next_obj - 1)
    /\ \A seq \in {windows, layer_surfaces, popups, lock_surfaces} : PosByWl(seq, wl) = 0
    /\ \A s \in 1..Len(seats) : seats[s].seat # wl

\* C17: after a Destroy action for a surface has been handled, no further
\* event for that surface (pointer, scale-factor, Configure or RedrawRequested)
\* is sent to the UI, even when the compositor still delivers events for the
\* destroyed surface.
C17_NoEventAfterDestroy ==
    [][\A wl \in Objs :
         Destroyed(wl) =>
            \A k \in 1..Len(emitted') : EventSurface(emitted'[k]) # wl
      ]_vars

\* C18: for each SurfaceId the UI receives events in the order the dispatcher
\* produced them: an event sent while handling an action (Created, synthesized
\* Configure, Done) never overtakes a protocol event for the same surface that
\* was produced earlier in the same wake-up and still waits to be sent.
C18_ActionEventsKeepOrder ==
    [][act'.name # "EndDispatch" =>
         \A k \in 1..Len(emitted'), j \in 1..Len(sctk_events) :
             EventSurface(emitted'[k]) # EventSurface(sctk_events[j])
      ]_vars

(***************************************************************************)
(* Specification of configures: windows and layer surfaces are created,    *)
(* the compositor configures them, the application resizes them, and the   *)
(* wake-up ends.                                                           *)
(***************************************************************************)
\* surfaces created in the configure specification
MaxConfObj == 2

InitConfigure == InitState(AllGlobals) /\ InitIds

NextConfigure ==
    \/ next_obj <= MaxConfObj /\ GetWindow(next_obj, 1, 1, None)
    \/ next_obj <= MaxConfObj /\ ActLayerSurface(next_obj, {}, <<None, None>>)
    \/ \E i \in 1..MaxConfObj, w \in {None, Some(MaxDim)} :
          WindowConfigure(i, <<w, None>>, "normal")
    \/ \E i \in 1..MaxConfObj, w \in 1..MaxDim : LayerConfigure(i, <<w, 1>>)
    \/ \E id \in 1..MaxConfObj : ActWindowSize(id, MaxDim, 1)
    \/ \E id \in 1..MaxConfObj : ActLayerSize(id, Some(MaxDim), None)
    \/ EndDispatch

SpecConfigure == InitConfigure /\ [][NextConfigure]_vars

IsConfigure(ev) == ev[1] \in {"WindowConfigure", "LayerConfigure"}

\* the last configure recorded for the registered surface wl, None if none
LastConfigureOf(wl) ==
    LET w == PosByWl(windows, wl)
        l == PosByWl(layer_surfaces, wl)
    IN  IF w # 0 THEN windows[w].last_configure
        ELSE IF l # 0 THEN layer_surfaces[l].last_configure
        ELSE None

\* C20: for each surface, Configure events are emitted in the order received
\* and exactly the first Configure emitted for the surface is tagged
\* first=true; every later Configure, a Configure synthesized after a Size
\* action included, is tagged first=false.  So a handler tags a Configure
\* first exactly when the surface had none before, the queue is sent as it
\* stands, and no Configure tagged first=false is sent to the UI ahead of the
\* surface's first=true Configure.
C20_FirstConfigureTaggedFirst ==
    [][/\ \A k \in (Len(sctk_events) + 1)..Len(sctk_events') :
             IsConfigure(sctk_events'[k]) =>
                sctk_events'[k][4] = IsNone(LastConfigureOf(sctk_events'[k][2]))
       /\ act'.name = "EndDispatch" =>
             SubSeq(emitted', 1, Len(sctk_events)) = sctk_events
       /\ \A k \in 1..Len(emitted') :
             (IsConfigure(emitted'[k]) /\ ~emitted'[k][4]) =>
                /\ \A j \in (k + 1)..Len(emitted') :
                      ~(/\ IsConfigure(emitted'[j])
                        /\ emitted'[j][2] = emitted'[k][2]
                        /\ emitted'[j][4])
                /\ act'.name # "EndDispatch" =>
                      \A j \in 1..Len(sctk_events) :
                          ~(/\ IsConfigure(sctk_events[j])
                            /\ sctk_events[j][2] = emitted'[k][2]
                            /\ sctk_events[j][4])
      ]_vars

\* C38: a layer Size(w?, h?) action on a layer surface that has received a
\* Configure sends the UI exactly one synthesized Configure whose new size is
\* (w if given, else the configured width; h if given, else the configured
\* height); on a layer surface without a Configure it sends none.
C38_LayerSizeSynthesizesConfigure ==
    [][\A id \in 1..MaxConfObj :
         LET i == PosById(layer_surfaces, id)
             l == layer_surfaces[i]
             w == Some(MaxDim)
             h == None
         IN  (act'.id = id /\ i # 0 /\ ActLayerSize(id, w, h)) =>
                IF IsSome(l.last_configure)
                THEN emitted' =
                        <<<<"LayerConfigure", l.wl,
                            <<UnwrapOr(w, Unwrap(l.last_configure)[1]),
                              UnwrapOr(h, Unwrap(l.last_configure)[2])>>, FALSE>>>>
                ELSE emitted' = <<>>
      ]_vars

(***************************************************************************)
(* Startup: SctkEventLoop::new spawns the dispatcher thread and returns    *)
(***************************************************************************)
\* the globals whose absence or presence the startup code looks at
StartupGlobals == RequiredGlobals \cup {"wl_subcompositor"}

\* the closure given to std::thread::spawn up to "SCTK setup complete", lines
\* 73-277: without a display handle it returns Ok(()); the `expect`s of the
\* SctkState literal (186-191) panic when a required global is missing; else
\* the subsurface state is sent when subcompositor and viewporter were bound
\* and the thread enters its loop
ThreadSetup(display_ok) ==
    /\ startup.thread = "spawned"
    /\ act' = Label("ThreadSetup", 0)
    /\ requests' = <<>>
    /\ IF ~display_ok
       THEN /\ startup' = [startup EXCEPT !.thread = "returned"]
            /\ emitted' = <<>>
            /\ UNCHANGED panicked
       ELSE IF ~(RequiredGlobals \subseteq startup.offered)
       THEN /\ startup' = [startup EXCEPT !.thread = "panicked"]
            /\ panicked' = TRUE
            /\ emitted' = <<>>
       ELSE /\ startup' = [startup EXCEPT !.thread = "running"]
            /\ emitted' = IF "wl_subcompositor" \in startup.offered /\ globals.viewporter
                          THEN <<<<"Subcompositor">>>> ELSE <<>>
            /\ UNCHANGED panicked
    /\ UNCHANGED <<globals, windows, layer_surfaces, popups, lock_surfaces,
                   session_lock, id_map, to_commit, requested_frame, sctk_events,
                   ready, seats, next_obj, idVars, ui, channel>>

\* JoinHandle::is_finished at the moment new() looks, line 343
IsFinished(thread) == thread \in {"returned", "panicked"}

\* the end of SctkEventLoop::new, lines 343-348: a thread seen finished is
\* joined and its panic becomes the error; else the sender is handed out
NewReturns ==
    /\ IsNone(startup.result)
    /\ startup' = [startup EXCEPT !.result =
                      IF IsFinished(startup.thread) /\ startup.thread = "panicked"
                      THEN Some("Err") ELSE Some("Ok")]
    /\ act' = Label("NewReturns", 0)
    /\ emitted' = <<>>
    /\ requests' = <<>>
    /\ UNCHANGED <<globals, windows, layer_surfaces, popups, lock_surfaces,
                   session_lock, id_map, to_commit, requested_frame, sctk_events,
                   ready, seats, next_obj, panicked, idVars, ui, channel>>

(***************************************************************************)
(* Specification of startup: the compositor offers any of the globals, the *)
(* spawned thread and the caller of new() run in either order, and a       *)
(* thread that reached its loop receives a seat and ends wake-ups.         *)
(***************************************************************************)
InitStartup ==
    /\ \E g \in GlobalChoices : InitSctkState(g)
    /\ InitIds
    /\ startup \in [offered : SUBSET StartupGlobals, thread : {"spawned"},
                     result : {None}]
    /\ ui = UiIdle
    /\ channel = <<>>

NextStartup ==
    \/ \E display_ok \in BOOLEAN : ThreadSetup(display_ok)
    \/ NewReturns
    \/ startup.thread = "running" /\ seats = <<>> /\ NewSeat
    \/ startup.thread = "running" /\ EndDispatch

SpecStartup == InitStartup /\ [][NextStartup]_vars

\* C33: when a required global (wl_compositor, wl_shm or xdg-shell) is missing
\* at startup, SctkEventLoop::new returns an error and hands out no action
\* sender, however the spawned thread is scheduled relative to the caller.
C33_MissingGlobalFailsNew ==
    (IsSome(startup.result) /\ ~(RequiredGlobals \subseteq startup.offered))
        => startup.result = Some("Err")

(***************************************************************************)
(* The UI side: SctkWinitWindow (winit_window.rs) and the action source    *)
(* that receives what it sends                                             *)
(***************************************************************************)
\* SurfaceIdWrapper of the window made for the surface wl, with its SurfaceId
WrapperOf(wl) ==
    LET l == PosByWl(layer_surfaces, wl)
        p == PosByWl(popups, wl)
        k == PosByWl(lock_surfaces, wl)
    IN  IF l # 0 THEN [kind |-> "LayerSurface", id |-> layer_surfaces[l].id,
                       common |-> layer_surfaces[l].common]
        ELSE IF p # 0 THEN [kind |-> "Popup", id |-> popups[p].id,
                            common |-> popups[p].common]
        ELSE IF k # 0 THEN [kind |-> "SessionLock", id |-> lock_surfaces[k].id,
                            common |-> lock_surfaces[k].common]
        ELSE [kind |-> "None", id |-> 0, common |-> [fractional_scale |-> None,
                                                     size |-> <<1, 1>>]]

\* the methods that take the Common lock, and those that only send
LockingOps == {"scale_factor", "inner_size", "request_inner_size"}
SendingOps == {"request_redraw", "pre_present_notify", "set_cursor"}

\* a guard that is never released
GuardDropped_Never(op) == FALSE

\* `let guard = self.common.lock().unwrap()` is a local of the method: it is
\* dropped when the method returns (lines 59, 104, 124-128)
GuardDropped(op) == TRUE

\* what the three locking methods do once they hold the guard: scale_factor
\* (57-58) and inner_size (101-103) read the block, request_inner_size
\* (110-127) reads it and sends the Size action of a layer surface or popup
\* (nothing for a lock surface) while the guard is held
UiValue(op, c) ==
    LET scale == UnwrapOr(c.fractional_scale, 1) IN
    IF op = "scale_factor" THEN Some(scale)
    ELSE IF op = "inner_size" THEN Some(<<c.size[1] * scale, c.size[2] * scale>>)
    ELSE None

UiSizeAction(w, physical) ==
    LET scale == UnwrapOr(w.common.fractional_scale, 1)
        size == <<physical[1] \div scale, physical[2] \div scale>>
    IN
    IF w.kind = "LayerSurface" THEN <<<<"LayerSize", w.id, Some(size[1]), Some(size[2])>>>>
    ELSE IF w.kind = "Popup" THEN <<<<"PopupSize", w.id, size[1], size[2]>>>>
    ELSE <<>>

\* a step of the UI thread is no handler of the dispatcher: it sends no
\* request to the compositor and no event to itself
UiLog == act' = Label("UiThread", 0) /\ emitted' = <<>> /\ requests' = <<>>

\* the UI thread enters one of the locking methods of the window of wl
UiCall(op, wl) ==
    /\ ui.op = "none"
    /\ op \in LockingOps
    /\ WrapperOf(wl).kind # "None"
    /\ ui' = [ui EXCEPT !.op = op, !.wl = wl, !.value = None]
    /\ UiLog /\ UNCHANGED <<regVars, seats, idVars, startup, channel>>

\* self.common.lock(): the UI thread waits while the mutex of that block is
\* held; the left-over guard of an earlier call is such a holder.  The method
\* reads the block as soon as it has the guard (lines 58, 102-103, 113)
UiLock ==
    /\ ui.op \in LockingOps
    /\ ~ui.guard
    /\ ui' = [ui EXCEPT !.guard = TRUE,
                        !.value = UiValue(ui.op, WrapperOf(ui.wl).common)]
    /\ UiLog /\ UNCHANGED <<regVars, seats, idVars, startup, channel>>

\* the rest of the method under the guard, and its return, which hands the
\* value to the caller
UiFinish(size) ==
    LET w == WrapperOf(ui.wl) IN
    /\ ui.op \in LockingOps
    /\ ui.guard
    /\ ui' = [UiIdle EXCEPT !.guard = ~GuardDropped(ui.op)]
    /\ channel' = IF ui.op = "request_inner_size"
                  THEN channel \o UiSizeAction(w, size) ELSE channel
    /\ UiLog /\ UNCHANGED <<regVars, seats, idVars, startup>>

\* request_redraw (61-63), pre_present_notify (65-67), set_cursor (69-78): one
\* send on the action channel, which is unbounded and does not wait
UiSend(op, wl, icon) ==
    /\ ui.op = "none"
    /\ op \in SendingOps
    /\ WrapperOf(wl).kind # "None"
    /\ channel' = Append(channel,
                     IF op = "request_redraw" THEN <<"RequestRedraw", wl>>
                     ELSE IF op = "pre_present_notify" THEN <<"PrePresentNotify", wl>>
                     ELSE <<"SetCursor", icon>>)
    /\ UiLog /\ UNCHANGED <<regVars, seats, idVars, startup, ui>>

\* the action source, mod.rs lines 111-136: the dispatcher takes the next
\* message off the channel and handles it (RequestRedraw, PrePresentNotify,
\* SetCursor, and the Size actions through handle_action)
Receive ==
    LET m == Head(channel)
        l == IF m[1] = "LayerSize" THEN PosById(layer_surfaces, m[2]) ELSE 0
        p == IF m[1] = "PopupSize" THEN PosById(popups, m[2]) ELSE 0
        r == IF m[1] = "SetCursor" /\ Len(seats) > 0
             THEN SetCursor([seat |-> [seats[1] EXCEPT !.icon = Some(m[2])],
                             pushed |-> <<>>, reqs |-> <<>>, done |-> FALSE], m[2])
             ELSE [reqs |-> <<>>]
    IN
    /\ Alive
    /\ channel # <<>>
    /\ channel' = Tail(channel)
    /\ act' = Label("Receive", 0)
    /\ requested_frame' =
          IF m[1] = "RequestRedraw" THEN requested_frame \ {m[2]}
          ELSE IF m[1] = "PrePresentNotify" THEN requested_frame \cup {m[2]}
          ELSE requested_frame
    /\ seats' = IF m[1] = "SetCursor" /\ Len(seats) > 0
                THEN [seats EXCEPT ![1] = r.seat] ELSE seats
    /\ layer_surfaces' =
          IF l # 0
          THEN [layer_surfaces EXCEPT ![l].requested_size = <<m[3], m[4]>>]
          ELSE layer_surfaces
    /\ requests' =
          IF l # 0
          THEN <<<<"layer.set_size", layer_surfaces[l].wl,
                   <<UnwrapOr(m[3], 0), UnwrapOr(m[4], 0)>>>>>>
          ELSE IF p # 0
          THEN <<<<"set_window_geometry", popups[p].wl, <<m[3], m[4]>>>>,
                 <<"popup.reposition", popups[p].wl, <<m[3], m[4]>>>>>>
          ELSE r.reqs
    /\ emitted' =
          IF l # 0 /\ IsSome(layer_surfaces[l].last_configure)
          THEN <<<<"LayerConfigure", layer_surfaces[l].wl,
                   LayerSizeConfigure(Unwrap(layer_surfaces[l].last_configure),
                                      m[3], m[4]), FALSE>>>>
          ELSE <<>>
    /\ UNCHANGED <<globals, windows, popups, lock_surfaces, session_lock, id_map,
                   to_commit, sctk_events, ready, next_obj, panicked, idVars,
                   startup, ui>>

\* the dispatcher's `x.common.lock().unwrap()` in scale_factor_changed (lines
\* 413, 429, 447) gets the mutex of the block of wl when the UI thread does
\* not hold it
CommonFree(wl) == ~(ui.guard /\ ui.wl = wl)

(***************************************************************************)
(* Specification of the two threads: the dispatcher creates surfaces,      *)
(* records scale changes in their Common blocks and receives actions; the  *)
(* UI thread calls the methods of the windows of those surfaces.           *)
(***************************************************************************)
\* actions in the channel when the UI thread starts another method
MaxChannel == 1

\* the physical size the UI asks for
UiSizes == {<<2, 2>>}

InitUi ==
    /\ \E g \in GlobalChoices :
          g.layer_shell /\ g.lock_ok /\ g.viewporter /\ g.fractional
          /\ InitState(g)
    /\ InitIds

UiStep ==
    \/ \E op \in LockingOps, wl \in Objs :
          Len(channel) < MaxChannel /\ UiCall(op, wl)
    \/ UiLock
    \/ \E size \in UiSizes : UiFinish(size)
    \/ \E op \in SendingOps, wl \in Objs, icon \in CursorIcons :
          Len(channel) < MaxChannel /\ UiSend(op, wl, icon)

\* two surfaces with a Common block and a window on the UI side: a layer
\* surface and then either a popup on it or, under a session lock, a lock
\* surface, whose size request returns early
NextUi ==
    \/ layer_surfaces = <<>> /\ ActLayerSurface(next_obj, {}, <<None, None>>)
    \/ popups = <<>> /\ layer_surfaces # <<>> /\ ~session_lock
          /\ ActPopup(next_obj, layer_surfaces[1].id, Some(<<1, 1>>), FALSE, TRUE, TRUE)
    \/ ~session_lock /\ layer_surfaces # <<>> /\ popups = <<>> /\ ActLock
    \/ lock_surfaces = <<>> /\ session_lock /\ ActLockSurface(next_obj)
    \/ \E wl \in Objs :
          /\ WrapperOf(wl).kind # "None"
          /\ CommonFree(wl) /\ sctk_events = <<>>
          /\ ScaleFactorChanged(wl, 2, FALSE)
    \/ Receive
    \/ EndDispatch
    \/ UiStep

SpecUi == InitUi /\ [][NextUi]_vars

\* the UI thread is scheduled: a method that can take its next step takes it
SpecUiFair ==
    SpecUi /\ WF_vars(UiLock) /\ WF_vars(\E size \in UiSizes : UiFinish(size))

====
